---- MODULE Spec2Model ----
(***************************************************************************)
(* A model of atlassian-mcp: the Markdown <-> ADF converter                *)
(* (internal/adf), the write operations of the Jira and Confluence         *)
(* clients with their media upload and checksum protocols.                 *)
(*                                                                         *)
(* Go strings are TLA+ strings (TLC evaluates Len, SubSeq and \o on them), *)
(* indexed from 1; a Go index i is the TLA+ index i+1.  A line cursor is   *)
(* kept 1-based as well: cursor = Len(lines)+1 is Go's i == len(lines).    *)
(*                                                                         *)
(* A value a Go function computes once and reads several times is passed   *)
(* on as the parameter of a second operator (F calls FWith): the value is  *)
(* then computed once here too.                                            *)
(***************************************************************************)
EXTENDS Integers, Sequences, FiniteSets, TLC

(***************************************************************************)
(* strings                                                                 *)
(***************************************************************************)
Min(S) == CHOOSE x \in S : \A y \in S : x <= y

Max(S) == CHOOSE x \in S : \A y \in S : x >= y

MinOr(S, none) == IF S = {} THEN none ELSE Min(S)

MaxOr(S, none) == IF S = {} THEN none ELSE Max(S)

\* the character at i, "" outside the string
Ch(s, i) == IF i >= 1 /\ i <= Len(s) THEN SubSeq(s, i, i) ELSE ""

Drop(s, n) == SubSeq(s, n + 1, Len(s))

HasAt(s, i, lit) == i >= 1 /\ i + Len(lit) - 1 <= Len(s) /\ SubSeq(s, i, i + Len(lit) - 1) = lit

HasPrefix(s, p) == HasAt(s, 1, p)

HasSuffix(s, p) == Len(p) <= Len(s) /\ SubSeq(s, Len(s) - Len(p) + 1, Len(s)) = p

\* strings.Index from position i on: the first j >= i where lit starts, 0 if none
IndexFrom(s, lit, i) == MinOr({j \in i..Len(s) : HasAt(s, j, lit)}, 0)

Index(s, lit) == IndexFrom(s, lit, 1)

Contains(s, lit) == \E j \in 1..Len(s) : HasAt(s, j, lit)

\* unicode.IsSpace / the regexp class \s, over the characters the model uses
WS == {" ", "\t", "\n", "\r"}

Digits == {"0", "1", "2", "3", "4", "5", "6", "7", "8", "9"}

\* the first j >= i with s[j] in cls, Len(s)+1 if none: the end of a run of [^cls]
SpanNot(s, i, cls) == MinOr({j \in i..Len(s) : Ch(s, j) \in cls}, Len(s) + 1)

\* the first j >= i with s[j] not in cls, Len(s)+1 if none: the end of a run of [cls]
SpanIn(s, i, cls) == MinOr({j \in i..Len(s) : Ch(s, j) \notin cls}, Len(s) + 1)

TrimLeftSet(s, cls) == SubSeq(s, SpanIn(s, 1, cls), Len(s))

TrimRightSet(s, cls) == SubSeq(s, 1, MaxOr({j \in 1..Len(s) : Ch(s, j) \notin cls}, 0))

TrimSet(s, cls) == TrimRightSet(TrimLeftSet(s, cls), cls)

TrimSpace(s) == TrimSet(s, WS)

TrimPrefix(s, p) == IF HasPrefix(s, p) THEN Drop(s, Len(p)) ELSE s

RECURSIVE Split(_, _)
SplitAt(s, sep, k) ==
    IF k = 0 THEN <<s>> ELSE <<SubSeq(s, 1, k - 1)>> \o Split(Drop(s, k + Len(sep) - 1), sep)

\* strings.Split
Split(s, sep) == SplitAt(s, sep, Index(s, sep))

RECURSIVE Join(_, _)
Join(parts, sep) ==
    IF Len(parts) = 0 THEN ""
    ELSE IF Len(parts) = 1 THEN parts[1]
    ELSE parts[1] \o sep \o Join(Tail(parts), sep)

RECURSIVE Repeat(_, _)
Repeat(s, n) == IF n <= 0 THEN "" ELSE s \o Repeat(s, n - 1)

RECURSIVE ReplaceAll(_, _, _)
ReplaceAt(s, old, new, k) ==
    IF k = 0 THEN s ELSE SubSeq(s, 1, k - 1) \o new \o ReplaceAll(Drop(s, k + Len(old) - 1), old, new)

\* strings.ReplaceAll
ReplaceAll(s, old, new) == ReplaceAt(s, old, new, Index(s, old))

IsAllDigits(s) == Len(s) > 0 /\ \A j \in 1..Len(s) : Ch(s, j) \in Digits

DigitVal(c) == CHOOSE d \in 0..9 : Ch("0123456789", d + 1) = c

RECURSIVE Atoi(_)
Atoi(s) == IF Len(s) = 0 THEN 0 ELSE 10 * Atoi(SubSeq(s, 1, Len(s) - 1)) + DigitVal(Ch(s, Len(s)))

RECURSIVE ItoaNat(_)
ItoaNat(n) == IF n < 10 THEN Ch("0123456789", n + 1) ELSE ItoaNat(n \div 10) \o Ch("0123456789", (n % 10) + 1)

Itoa(n) == IF n < 0 THEN "-" \o ItoaNat(0 - n) ELSE ItoaNat(n)

\* The backquote cannot be written inside a TLA+ string: "^" stands for the
\* character '`' wherever the Go source has one (code spans, code fences).
BT == "^"

(***************************************************************************)
(* ADF nodes.  Go's map[string]any becomes a record with the same shape    *)
(* for every node; an attribute value keeps its dynamic Go type, because   *)
(* the renderer's type assertions (.(float64), .(string)) depend on it.    *)
(***************************************************************************)
EmptyMap == <<>>

VStr(s) == [k |-> "string", s |-> s, n |-> 0]

VInt(n) == [k |-> "int", s |-> "", n |-> n]

VFloat(n) == [k |-> "float64", s |-> "", n |-> n]

VBool(b) == [k |-> "bool", s |-> "", n |-> IF b THEN 1 ELSE 0]

\* v, _ := attrs[key].(string)
AttrStr(attrs, key) == IF key \in DOMAIN attrs /\ attrs[key].k = "string" THEN attrs[key].s ELSE ""

HasStr(attrs, key) == key \in DOMAIN attrs /\ attrs[key].k = "string"

\* _, ok := attrs[key].(float64)
HasFloat(attrs, key) == key \in DOMAIN attrs /\ attrs[key].k = "float64"

\* v, ok := attrs[key].(float64); the given default when !ok
FloatOr(attrs, key, default) == IF HasFloat(attrs, key) THEN attrs[key].n ELSE default

Mk(type, attrs, content) == [type |-> type, attrs |-> attrs, content |-> content, text |-> "", marks |-> <<>>]

TextNode(s, marks) == [type |-> "text", attrs |-> EmptyMap, content |-> <<>>, text |-> s, marks |-> marks]

Mark(type, attrs) == [type |-> type, attrs |-> attrs]

\* a nil map[string]any returned in place of a node
NilNode == Mk("<nil>", EmptyMap, <<>>)

\* GenerateLocalID: time and crypto/rand bytes, formatted "%x-%x".  The model
\* never reads the bytes; every generated id is this representative value.
GenerateLocalID == "65a1b2c3-0011223344556677"

(***************************************************************************)
(* timestamps (utils.go).  TLC's integers have 32 bits: a millisecond      *)
(* count is held as whole seconds plus its last three digits.  The civil   *)
(* calendar is the proleptic Gregorian one of package time.                *)
(***************************************************************************)
VARIABLES
    tz      \* offset of time.Local from UTC, in minutes (the process environment)

ShiftedYear(y, m) == IF m <= 2 THEN y - 1 ELSE y

DayOfYear(m, d) == (153 * (IF m > 2 THEN m - 3 ELSE m + 9) + 2) \div 5 + d - 1

DaysOfEra(era, yoe, doy) == era * 146097 + yoe * 365 + yoe \div 4 - yoe \div 100 + doy - 719468

\* days from 1970-01-01 to the civil date y-m-d
DaysFromCivil(y, m, d) == DaysOfEra(ShiftedYear(y, m) \div 400, ShiftedYear(y, m) % 400, DayOfYear(m, d))

YearOfEra(doe) == (doe - doe \div 1460 + doe \div 36524 - doe \div 146096) \div 365

CivilMonth(era, yoe, doy, mp) ==
    [y |-> yoe + era * 400 + (IF mp >= 10 THEN 1 ELSE 0),
     m |-> IF mp < 10 THEN mp + 3 ELSE mp - 9,
     d |-> doy - (153 * mp + 2) \div 5 + 1]

CivilDay(era, yoe, doy) == CivilMonth(era, yoe, doy, (5 * doy + 2) \div 153)

CivilYear(era, doe, yoe) == CivilDay(era, yoe, doe - (365 * yoe + yoe \div 4 - yoe \div 100))

\* the civil date of the day that is z0 days after 1970-01-01
CivilFromDays(z0) ==
    CivilYear((z0 + 719468) \div 146097, (z0 + 719468) % 146097, YearOfEra((z0 + 719468) % 146097))

IsLeap(y) == (y % 4 = 0 /\ y % 100 # 0) \/ y % 400 = 0

DaysIn(y, m) ==
    IF m = 2 THEN (IF IsLeap(y) THEN 29 ELSE 28)
    ELSE IF m \in {4, 6, 9, 11} THEN 30 ELSE 31

Pad(n, width) == Repeat("0", width - Len(ItoaNat(n))) \o ItoaNat(n)

\* the characters of s at positions a..b are all decimal digits
DigitsAt(s, a, b) == b <= Len(s) /\ \A j \in a..b : Ch(s, j) \in Digits

\* the number written at positions a..b of s
NumAt(s, a, b) == Atoi(SubSeq(s, a, b))

\* time.Parse("2006-01-02", s) succeeds
IsISODate(s) ==
    /\ Len(s) = 10
    /\ DigitsAt(s, 1, 4) /\ Ch(s, 5) = "-" /\ DigitsAt(s, 6, 7) /\ Ch(s, 8) = "-" /\ DigitsAt(s, 9, 10)
    /\ NumAt(s, 6, 7) \in 1..12
    /\ NumAt(s, 9, 10) \in 1..DaysIn(NumAt(s, 1, 4), NumAt(s, 6, 7))

\* the time part of the RFC 3339 form YYYY-MM-DDTHH:MM:SSZ is well formed
IsTimeTail(s) ==
    /\ Len(s) = 20 /\ Ch(s, 11) = "T" /\ Ch(s, 20) = "Z"
    /\ DigitsAt(s, 12, 13) /\ Ch(s, 14) = ":" /\ DigitsAt(s, 15, 16) /\ Ch(s, 17) = ":" /\ DigitsAt(s, 18, 19)
    /\ NumAt(s, 12, 13) < 24 /\ NumAt(s, 15, 16) < 60 /\ NumAt(s, 18, 19) < 60

\* the seconds since midnight of a string IsTimeTail accepts, 0 for a bare date
TimeSeconds(s) ==
    IF Len(s) = 10 THEN 0 ELSE 3600 * NumAt(s, 12, 13) + 60 * NumAt(s, 15, 16) + NumAt(s, 18, 19)

DateSeconds(s) == DaysFromCivil(NumAt(s, 1, 4), NumAt(s, 6, 7), NumAt(s, 9, 10)) * 86400

\* fmt.Sprintf("%d", t.UnixMilli()) of a time with whole seconds
MillisString(secs) == IF secs = 0 THEN "0" ELSE Itoa(secs) \o "000"

\* The two time.Parse attempts of ParseTimestamp, "2006-01-02" and then
\* time.RFC3339 (in its form YYYY-MM-DDTHH:MM:SSZ), share the date part.
ParseTrimmed(input) ==
    IF Len(input) >= 10 /\ IsAllDigits(input) THEN input
    ELSE IF Len(input) >= 10 /\ IsISODate(SubSeq(input, 1, 10)) /\ (Len(input) = 10 \/ IsTimeTail(input))
         THEN MillisString(DateSeconds(input) + TimeSeconds(input))
    ELSE input

ParseTimestamp(input) == ParseTrimmed(TrimSpace(input))

\* where the digits start in a string with an optional sign
DigitsStart(s) == IF Ch(s, 1) \in {"+", "-"} THEN 2 ELSE 1

\* fmt.Sscanf(s, "%d", &ms): an optional sign and the longest run of digits at
\* the start of s; what follows the digits is not read.  The position of the
\* last digit, 0 when there is none (Sscanf fails).
ScanIntEnd(s) == IF SpanIn(s, DigitsStart(s), Digits) > DigitsStart(s) THEN SpanIn(s, DigitsStart(s), Digits) - 1 ELSE 0

\* floor(ms / 1000) for ms written with the digits digs
SecondsOf(neg, digs) ==
    IF Len(digs) <= 3 THEN (IF neg /\ Atoi(digs) # 0 THEN -1 ELSE 0)
    ELSE IF neg /\ Atoi(SubSeq(digs, Len(digs) - 2, Len(digs))) # 0
         THEN 0 - Atoi(SubSeq(digs, 1, Len(digs) - 3)) - 1
    ELSE IF neg THEN 0 - Atoi(SubSeq(digs, 1, Len(digs) - 3))
    ELSE Atoi(SubSeq(digs, 1, Len(digs) - 3))

\* t.Format("2006-01-02")
FormatDate(c) == Pad(c.y, 4) \o "-" \o Pad(c.m, 2) \o "-" \o Pad(c.d, 2)

FormatScanned(timestamp, e) ==
    IF e = 0 THEN timestamp
    ELSE FormatDate(CivilFromDays(
             (SecondsOf(Ch(timestamp, 1) = "-", SubSeq(timestamp, DigitsStart(timestamp), e)) + 60 * tz)
                 \div 86400))

FormatTrimmed(timestamp) == FormatScanned(timestamp, ScanIntEnd(timestamp))

FormatTimestamp(timestamp) == FormatTrimmed(TrimSpace(timestamp))

(***************************************************************************)
(* inline patterns (utils.go, from_md.go parseInlineContent).              *)
(* MatchEnd(p, s, i) is the position right after the match of pattern p    *)
(* that starts at s[i], 0 when p does not match there.  Every pattern is   *)
(* an opening literal, runs of a negated class, and closing literals, so   *)
(* the leftmost-first match of Go's regexp is the one computed here.       *)
(***************************************************************************)
DelimClose(s, a, j, close) == IF j > a /\ HasAt(s, j, close) THEN j + Len(close) ELSE 0

\* open [^excl]+ close
DelimEnd(s, i, open, excl, close) ==
    IF ~HasAt(s, i, open) THEN 0
    ELSE DelimClose(s, i + Len(open), SpanNot(s, i + Len(open), excl), close)

EmojiChars ==
    {"a", "b", "c", "d", "e", "f", "g", "h", "i", "j", "k", "l", "m", "n", "o", "p", "q",
     "r", "s", "t", "u", "v", "w", "x", "y", "z", "_", "+", "-"} \cup Digits

StatusAttrClose(s, j, k) == IF k > j + 1 /\ k <= Len(s) THEN k + 1 ELSE 0

StatusClose(s, a, j) ==
    IF j = a \/ j > Len(s) THEN 0
    ELSE IF Ch(s, j) = "}" THEN j + 1
    ELSE StatusAttrClose(s, j, SpanNot(s, j + 1, {"}"}))

\* ExtStatusRe: \{status:([^|}]+)(?:\|([^}]+))?\}
StatusEnd(s, i) ==
    IF ~HasAt(s, i, "{status:") THEN 0 ELSE StatusClose(s, i + 8, SpanNot(s, i + 8, {"|", "}"}))

EmojiClose(s, i, j) == IF j > i + 1 /\ Ch(s, j) = ":" THEN j + 1 ELSE 0

\* EmojiCodeRe: :([a-z0-9_+-]+):
EmojiEnd(s, i) == IF Ch(s, i) # ":" THEN 0 ELSE EmojiClose(s, i, SpanIn(s, i + 1, EmojiChars))

ParenClose(s, e, j) == IF j > e /\ j <= Len(s) THEN j + 1 ELSE 0

LegacyClose(s, e) == IF e = 0 THEN 0 ELSE ParenClose(s, e, SpanNot(s, e, {")"}))

\* @\[([^\]]+)\]\(accountId:([^)]+)\)
LegacyMentionEnd(s, i) == LegacyClose(s, DelimEnd(s, i, "@[", {"]"}, "](accountId:"))

LinkTitleClose(s, q, r) == IF r > q + 1 /\ Ch(s, r) = "\"" /\ Ch(s, r + 1) = ")" THEN r + 2 ELSE 0

LinkTitleEnd(s, q) == IF Ch(s, q) # "\"" THEN 0 ELSE LinkTitleClose(s, q, SpanNot(s, q + 1, {"\""}))

LinkHrefEnd(s, e, j) ==
    IF j = e \/ j > Len(s) THEN 0
    ELSE IF Ch(s, j) = ")" THEN j + 1
    ELSE LinkTitleEnd(s, SpanIn(s, j, WS))

LinkClose(s, e) == IF e = 0 THEN 0 ELSE LinkHrefEnd(s, e, SpanNot(s, e, {")"} \cup WS))

\* \[([^\]]+)\]\(([^)\s]+)(?:\s+"([^"]+)")?\)
LinkEnd(s, i) == LinkClose(s, DelimEnd(s, i, "[", {"]"}, "]("))

ColorTextEnd(k) == IF k = 0 THEN 0 ELSE k + 7

ColorClose(s, e) ==
    IF e = 0 THEN 0
    ELSE ColorTextEnd(MinOr({k \in (e + 1)..Len(s) :
                                HasAt(s, k, "{color}") /\ ~Contains(SubSeq(s, e, k - 1), "\n")}, 0))

\* ExtColorRe: \{color:([^}]+)\}(.+?)\{color\}
ColorEnd(s, i) == ColorClose(s, DelimEnd(s, i, "{color:", {"}"}, "}"))

\* the patterns of parseInlineContent, in the order of its list
PatternNames ==
    <<"mention", "date", "status", "card", "emoji", "legacyMention", "link", "bold",
      "italic", "strike", "code", "textColor", "underline", "subscript", "superscript">>

\* the opening literal of a pattern of the form open [^c]+ close
PatOpen(p) ==
    CASE p = "mention" -> "{user:" [] p = "date" -> "{date:" [] p = "card" -> "{card:"
      [] p = "bold" -> "**" [] p = "italic" -> "*" [] p = "strike" -> "~~" [] p = "code" -> BT
      [] p = "underline" -> "<u>" [] p = "subscript" -> "<sub>" [] p = "superscript" -> "<sup>"

\* its closing literal
PatClose(p) ==
    CASE p \in {"mention", "date", "card"} -> "}"
      [] p = "underline" -> "</u>" [] p = "subscript" -> "</sub>" [] p = "superscript" -> "</sup>"
      [] OTHER -> PatOpen(p)

\* the character its body excludes
PatExcl(p) == Ch(PatClose(p), 1)

\* the second alternative of bold and italic: the same with '_' for '*'
Underscores(p) == IF p = "bold" THEN "__" ELSE "_"

AltEnd(a, b) == IF a # 0 THEN a ELSE b

MatchEnd(p, s, i) ==
    CASE p = "status" -> StatusEnd(s, i)
      [] p = "emoji" -> EmojiEnd(s, i)
      [] p = "legacyMention" -> LegacyMentionEnd(s, i)
      [] p = "link" -> LinkEnd(s, i)
      [] p = "textColor" -> ColorEnd(s, i)
      [] p \in {"bold", "italic"} ->
           AltEnd(DelimEnd(s, i, PatOpen(p), {"*"}, PatOpen(p)),
                  DelimEnd(s, i, Underscores(p), {"_"}, Underscores(p)))
      [] OTHER -> DelimEnd(s, i, PatOpen(p), {PatExcl(p)}, PatClose(p))

\* the element of S with the least first component, <<0, 0>> when S is empty
Leftmost(S) == IF S = {} THEN <<0, 0>> ELSE CHOOSE x \in S : \A y \in S : x[1] <= y[1]

\* re.FindStringIndex(s) as <<start, stop>>: the leftmost match, <<0, 0>> for nil
FindStringIndex(p, s) == Leftmost({x \in {<<i, MatchEnd(p, s, i)>> : i \in 1..Len(s)} : x[2] # 0})

\* The capture groups <<match[1], match[2], match[3]>> of pattern p on the
\* matched text m (FindStringSubmatch(matchStr) in parseInlineContent).
StatusSplit(m, j) == <<SubSeq(m, 9, j - 1), SubSeq(m, j + 1, Len(m) - 1), "">>

LegacySplit(m, b) == <<SubSeq(m, 3, b - 1), SubSeq(m, b + 12, Len(m) - 1), "">>

LinkSplit(m, b, j) ==
    <<SubSeq(m, 2, b - 1), SubSeq(m, b + 2, j - 1),
      IF Ch(m, j) = ")" THEN "" ELSE SubSeq(m, SpanIn(m, j, WS) + 1, Len(m) - 2)>>

LinkHref(m, b) == LinkSplit(m, b, SpanNot(m, b + 2, {")"} \cup WS))

ColorSplit(m, c) == <<SubSeq(m, 8, c - 1), SubSeq(m, c + 1, Len(m) - 7), "">>

Groups(p, m) ==
    CASE p = "status" -> StatusSplit(m, SpanNot(m, 9, {"|", "}"}))
      [] p = "emoji" -> <<SubSeq(m, 2, Len(m) - 1), "", "">>
      [] p = "legacyMention" -> LegacySplit(m, SpanNot(m, 3, {"]"}))
      [] p = "link" -> LinkHref(m, SpanNot(m, 2, {"]"}))
      [] p = "textColor" -> ColorSplit(m, SpanNot(m, 8, {"}"}))
      [] OTHER -> <<SubSeq(m, Len(PatOpen(p)) + 1, Len(m) - Len(PatClose(p))), "", "">>

ColorOfPair(pair, eq) ==
    IF eq # 0 /\ TrimSpace(SubSeq(pair, 1, eq - 1)) = "color" THEN <<TrimSpace(Drop(pair, eq))>> ELSE <<>>

\* SplitStatusAttrs(attrStr)["color"]: the value of the last pair whose key is "color"
RECURSIVE StatusColorOf(_, _)
StatusColorStep(pairs, k, found) ==
    IF Len(found) > 0 THEN found[1] ELSE StatusColorOf(pairs, k - 1)

StatusColorOf(pairs, k) ==
    IF k = 0 THEN "" ELSE StatusColorStep(pairs, k, ColorOfPair(pairs[k], Index(pairs[k], "=")))

StatusColorIn(pairs) == StatusColorOf(pairs, Len(pairs))

SplitStatusColor(attrStr) == StatusColorIn(Split(attrStr, ","))

WithColor(attrs, color) == IF color # "" THEN attrs @@ ("color" :> VStr(color)) ELSE attrs

\* the marks of the text node a text pattern gives
MarksOf(p, g) ==
    CASE p = "link" -> <<Mark("link", IF g[3] # "" THEN ("href" :> VStr(g[2])) @@ ("title" :> VStr(g[3]))
                                      ELSE "href" :> VStr(g[2]))>>
      [] p = "bold" -> <<Mark("strong", EmptyMap)>>
      [] p = "italic" -> <<Mark("em", EmptyMap)>>
      [] p = "textColor" -> <<Mark("textColor", "color" :> VStr(g[1]))>>
      [] p = "subscript" -> <<Mark("subsup", "type" :> VStr("sub"))>>
      [] p = "superscript" -> <<Mark("subsup", "type" :> VStr("sup"))>>
      [] OTHER -> <<Mark(p, EmptyMap)>>

\* the handler of pattern p applied to the groups g
HandlerOf(p, g) ==
    CASE p = "mention" -> Mk("mention", ("id" :> VStr(g[1])) @@ ("text" :> VStr("@" \o g[1])), <<>>)
      [] p = "date" -> Mk("date", "timestamp" :> VStr(ParseTimestamp(g[1])), <<>>)
      [] p = "status" ->
           Mk("status",
              WithColor(("text" :> VStr(g[1])) @@ ("localId" :> VStr(GenerateLocalID)), SplitStatusColor(g[2])),
              <<>>)
      [] p = "card" -> Mk("inlineCard", "url" :> VStr(g[1]), <<>>)
      [] p = "emoji" -> Mk("emoji", "shortName" :> VStr(":" \o g[1] \o ":"), <<>>)
      [] p = "legacyMention" -> Mk("mention", ("id" :> VStr(g[2])) @@ ("text" :> VStr("@" \o g[1])), <<>>)
      [] p = "textColor" -> TextNode(g[2], MarksOf(p, g))
      [] OTHER -> TextNode(g[1], MarksOf(p, g))

Handler(p, m) == HandlerOf(p, Groups(p, m))

\* The inner for loop of parseInlineContent: over the patterns in list order,
\* a match replaces the one kept so far only when it starts strictly before
\* it.  best.start = 0 is earliestMatch == -1.
RECURSIVE EarliestFrom(_, _, _)
\* a loop that keeps the first pattern of the list that matches anywhere
FirstListedStep(remaining, pi, best, loc) ==
    IF loc[1] # 0 /\ best.start = 0
    THEN EarliestFrom(remaining, pi + 1, [pattern |-> pi, start |-> loc[1], stop |-> loc[2]])
    ELSE EarliestFrom(remaining, pi + 1, best)

EarliestStep(remaining, pi, best, loc) ==
    IF loc[1] # 0 /\ (best.start = 0 \/ loc[1] < best.start)
    THEN EarliestFrom(remaining, pi + 1, [pattern |-> pi, start |-> loc[1], stop |-> loc[2]])
    ELSE EarliestFrom(remaining, pi + 1, best)

EarliestFrom(remaining, pi, best) ==
    IF pi > Len(PatternNames) THEN best
    ELSE EarliestStep(remaining, pi, best, FindStringIndex(PatternNames[pi], remaining))

Earliest(remaining) == EarliestFrom(remaining, 1, [pattern |-> 0, start |-> 0, stop |-> 0])

\* the text node for remaining[:earliestMatch], when earliestMatch > 0
Before(remaining, start) == IF start > 1 THEN <<TextNode(SubSeq(remaining, 1, start - 1), <<>>)>> ELSE <<>>

\* What one iteration of the scan loop does with the match e it chose: the
\* nodes it appends and the text it leaves; without a match, the rest of the
\* text becomes one text node and the loop ends.
IterWith(remaining, e) ==
    IF e.start = 0
    THEN [nodes |-> <<TextNode(remaining, <<>>)>>, rest |-> "", matched |-> FALSE, match |-> e]
    ELSE [nodes |-> Before(remaining, e.start)
                        \o <<Handler(PatternNames[e.pattern], SubSeq(remaining, e.start, e.stop - 1))>>,
          rest |-> Drop(remaining, e.stop - 1), matched |-> TRUE, match |-> e]

InlineIter(remaining) == IterWith(remaining, Earliest(remaining))

RECURSIVE InlineLoop(_, _)
InlineNext(result, it) == IF it.matched THEN InlineLoop(it.rest, result \o it.nodes) ELSE result \o it.nodes

InlineLoop(remaining, result) ==
    IF Len(remaining) = 0 THEN result ELSE InlineNext(result, InlineIter(remaining))

OrText(text, result) == IF Len(result) = 0 THEN <<TextNode(text, <<>>)>> ELSE result

ParseInlineContent(text) == IF text = "" THEN <<>> ELSE OrText(text, InlineLoop(text, <<>>))

(***************************************************************************)
(* line patterns and attribute strings (utils.go, from_md.go)              *)
(***************************************************************************)
Letters ==
    {"a", "b", "c", "d", "e", "f", "g", "h", "i", "j", "k", "l", "m", "n", "o", "p", "q",
     "r", "s", "t", "u", "v", "w", "x", "y", "z", "A", "B", "C", "D", "E", "F", "G", "H",
     "I", "J", "K", "L", "M", "N", "O", "P", "Q", "R", "S", "T", "U", "V", "W", "X", "Y", "Z"}

\* the regexp class \w
WordChars == Letters \cup Digits \cup {"_"}

\* a map[string]string: a function from the keys to the strings
MapGet(m, key) == IF key \in DOMAIN m THEN m[key] ELSE ""

MapGetOr(m, key, default) == IF MapGet(m, key) = "" THEN default ELSE m[key]

NoPair == [stop |-> 0, key |-> "", value |-> ""]

AttrQuoted(s, i, w, q) ==
    IF q = 0 THEN NoPair ELSE [stop |-> q + 1, key |-> SubSeq(s, i, w - 1), value |-> SubSeq(s, w + 2, q - 1)]

AttrBare(s, i, w, u) ==
    IF u = w + 1 THEN NoPair ELSE [stop |-> u, key |-> SubSeq(s, i, w - 1), value |-> SubSeq(s, w + 1, u - 1)]

AttrPairKey(s, i, w) ==
    IF w = i \/ Ch(s, w) # "=" THEN NoPair
    ELSE IF Ch(s, w + 1) = "\"" THEN AttrQuoted(s, i, w, IndexFrom(s, "\"", w + 2))
    ELSE AttrBare(s, i, w, SpanNot(s, w + 1, WS \cup {"\""}))

\* AttrPairRe at position i: (\w+)=(?:"([^"]*)"|([^\s"]+)); stop = 0 when no match
AttrPairAt(s, i) == AttrPairKey(s, i, SpanIn(s, i, WordChars))

\* ParseAttrs: every non-overlapping match from the left, a later key replacing an earlier one
RECURSIVE ParseAttrsFrom(_, _, _)
ParseAttrsPut(s, result, m) == ParseAttrsFrom(s, m.stop, (m.key :> m.value) @@ result)

ParseAttrsStep(s, result, p) == IF p = 0 THEN result ELSE ParseAttrsPut(s, result, AttrPairAt(s, p))

ParseAttrsFrom(s, i, result) ==
    ParseAttrsStep(s, result, MinOr({p \in i..Len(s) : AttrPairAt(s, p).stop # 0}, 0))

ParseAttrs(attrStr) == ParseAttrsFrom(attrStr, 1, EmptyMap)

\* MetadataCommentRe: <!--\s*adf:(\w+)\s+(.+?)\s*-->.  With group 2 starting
\* at g, the least k where it can stop (it is lazy), 0 if there is none.
MetaGroupEnd(line, g) ==
    MinOr({k \in (g + 1)..(Len(line) + 1) :
              ~Contains(SubSeq(line, g, k - 1), "\n") /\ HasAt(line, SpanIn(line, k, WS), "-->")}, 0)

\* the start of group 2: \s+ is greedy, so the largest start that gives a match
MetaSpace(line, a, w) ==
    IF ~HasAt(line, a, "adf:") \/ w = a + 4 THEN 0
    ELSE MaxOr({g \in (w + 1)..SpanIn(line, w, WS) : MetaGroupEnd(line, g) # 0}, 0)

MetaWord(line, a) == MetaSpace(line, a, SpanIn(line, a + 4, WordChars))

\* the start of group 2 of the match that begins at p, 0 if none begins there
MetaStart(line, p) == IF ~HasAt(line, p, "<!--") THEN 0 ELSE MetaWord(line, SpanIn(line, p + 4, WS))

MetaGroup(line, g) ==
    IF g = 0 THEN [ok |-> FALSE, attrs |-> ""]
    ELSE [ok |-> TRUE, attrs |-> SubSeq(line, g, MetaGroupEnd(line, g) - 1)]

MetaLeftmost(line, p) == IF p = 0 THEN [ok |-> FALSE, attrs |-> ""] ELSE MetaGroup(line, MetaStart(line, p))

\* MetadataCommentRe.FindStringSubmatch(line): ok and match[2]
MetadataMatch(line) == MetaLeftmost(line, MinOr({p \in 1..Len(line) : MetaStart(line, p) # 0}, 0))

NoFence == [ok |-> FALSE, blockType |-> "", attrStr |-> ""]

FenceAttrs(line, w, a) ==
    IF w > Len(line) THEN [ok |-> TRUE, blockType |-> SubSeq(line, 4, w - 1), attrStr |-> ""]
    ELSE IF a > w THEN [ok |-> TRUE, blockType |-> SubSeq(line, 4, w - 1), attrStr |-> Drop(line, a - 1)]
    ELSE NoFence

FenceWord(line, w) ==
    IF ~HasPrefix(line, "~~~") \/ w = 4 \/ Contains(line, "\n") THEN NoFence
    ELSE FenceAttrs(line, w, SpanIn(line, w, WS))

\* FenceBlockRe.FindStringSubmatch(line): ^~~~(\w+)(?:\s+(.*))?$
FenceMatch(line) == FenceWord(line, SpanIn(line, 4, WordChars))

\* FenceCloseRe.MatchString(line): ^~~~\s*$
FenceClose(line) == HasPrefix(line, "~~~") /\ SpanIn(line, 4, WS) > Len(line)

NoTask == [ok |-> FALSE, mark |-> "", text |-> ""]

TaskText(line, a, t) ==
    IF t > a + 5 /\ ~Contains(Drop(line, t - 1), "\n")
    THEN [ok |-> TRUE, mark |-> Ch(line, a + 3), text |-> Drop(line, t - 1)]
    ELSE NoTask

TaskBox(line, a) ==
    IF HasAt(line, a, "- [") /\ Ch(line, a + 3) \in {" ", "x", "X"} /\ Ch(line, a + 4) = "]"
    THEN TaskText(line, a, SpanIn(line, a + 5, WS))
    ELSE NoTask

\* TaskItemRe.FindStringSubmatch(line): ^(\s*)- \[([ xX])\]\s+(.*)$
TaskMatch(line) == TaskBox(line, SpanIn(line, 1, WS))

OrderedDot(line, d) == d > 1 /\ Ch(line, d) = "." /\ Ch(line, d + 1) \in WS

\* regexp.MatchString(`^\d+\.\s`, line)
OrderedStart(line) == OrderedDot(line, SpanIn(line, 1, Digits))

NoOrdered == [ok |-> FALSE, number |-> "", text |-> ""]

OrderedText(line, d, t) ==
    IF ~Contains(Drop(line, t - 1), "\n")
    THEN [ok |-> TRUE, number |-> SubSeq(line, 1, d - 1), text |-> Drop(line, t - 1)]
    ELSE NoOrdered

OrderedNumber(line, d) == IF OrderedDot(line, d) THEN OrderedText(line, d, SpanIn(line, d + 1, WS)) ELSE NoOrdered

\* orderedRe.FindStringSubmatch(line): ^(\d+)\.\s+(.*)$
OrderedMatch(line) == OrderedNumber(line, SpanIn(line, 1, Digits))

BulletStart(line) == HasPrefix(line, "- ") \/ HasPrefix(line, "* ") \/ HasPrefix(line, "+ ")

NoImage == [stop |-> 0, alt |-> "", src |-> ""]

ImageSrc(s, i, b, c) ==
    IF c > b + 2 /\ c <= Len(s)
    THEN [stop |-> c + 1, alt |-> SubSeq(s, i + 2, b - 1), src |-> SubSeq(s, b + 2, c - 1)]
    ELSE NoImage

ImageAlt(s, i, b) == IF HasAt(s, b, "](") THEN ImageSrc(s, i, b, SpanNot(s, b + 2, {")"})) ELSE NoImage

\* imageRe at position i: !\[([^\]]*)\]\(([^)]+)\); stop = 0 when no match
ImageAt(s, i) == IF HasAt(s, i, "![") THEN ImageAlt(s, i, SpanNot(s, i + 2, {"]"})) ELSE NoImage

ImageWhole(s, m) == IF m.stop = Len(s) + 1 THEN m ELSE NoImage

\* the anchored imageRe of parseBlocks: ^!\[([^\]]*)\]\(([^)]+)\)$
ImageLine(s) == ImageWhole(s, ImageAt(s, 1))

ImageFrom(s, p) == IF p = 0 THEN NoImage ELSE ImageAt(s, p)

\* the leftmost match of the unanchored imageRe from position i on
ImageFind(s, i) == ImageFrom(s, MinOr({p \in i..Len(s) : HasAt(s, p, "![") /\ ImageAt(s, p).stop # 0}, 0))

IndentOf(line, e) == ((e - 1) + Cardinality({j \in 1..(e - 1) : Ch(line, j) = "\t"})) \div 2

GetIndentLevel(line) == IndentOf(line, SpanIn(line, 1, {" ", "\t"}))

(***************************************************************************)
(* block parsers (from_md.go).  A parser that returns (node, endIdx) is an *)
(* operator that gives [node, end, div]; div is TRUE when the Go function  *)
(* never returns, which happens when the nested-list loop of parseListItem *)
(* comes back to the state it started an iteration in.                     *)
(***************************************************************************)
R(node, end, div) == [node |-> node, end |-> end, div |-> div]

\* a map[string]string copied into a map[string]any
StrAttrs(m) == [key \in DOMAIN m |-> VStr(m[key])]

\* append(content, node) under "if node != nil"
AppendNode(content, node) == IF node = NilNode THEN content ELSE Append(content, node)

Fence3 == BT \o BT \o BT

PendingMedia(alt, src) ==
    Mk("media",
       ("id" :> VStr("__PENDING_UPLOAD_" \o GenerateLocalID \o "__")) @@ ("type" :> VStr("file"))
           @@ ("alt" :> VStr(alt)) @@ ("_source" :> VStr(src)),
       <<>>)

MediaIds(alt, src, rest, c1, c2) ==
    IF c2 = 0 THEN PendingMedia(alt, src)
    ELSE Mk("media",
            ("id" :> VStr(SubSeq(rest, 1, c1 - 1))) @@ ("collection" :> VStr(SubSeq(rest, c1 + 1, c2 - 1)))
                @@ ("type" :> VStr(Drop(rest, c2))) @@ ("alt" :> VStr(alt)),
            <<>>)

MediaParts(alt, src, rest, c1) ==
    MediaIds(alt, src, rest, c1, IF c1 = 0 THEN 0 ELSE IndexFrom(rest, ":", c1 + 1))

MediaRest(alt, src, rest) == MediaParts(alt, src, rest, Index(rest, ":"))

parseMediaFromImage(alt, src) ==
    IF HasPrefix(src, "jira-media:") THEN MediaRest(alt, src, TrimPrefix(src, "jira-media:"))
    ELSE PendingMedia(alt, src)

parseStandaloneImage(alt, src) ==
    Mk("mediaSingle", "layout" :> VStr("align-start"), <<parseMediaFromImage(alt, src)>>)

\* fmt.Sscanf(width, "%f", &w) for the widths the model writes: a run of digits
ScanWidth(width) == Atoi(SubSeq(width, 1, SpanIn(width, 1, Digits) - 1))

MediaSingleAttrs(attrs, layout, w) ==
    IF w > 0
    THEN ("layout" :> VStr(layout)) @@ ("width" :> VFloat(w))
             @@ ("widthType" :> VStr(MapGetOr(attrs, "widthType", "pixel")))
    ELSE "layout" :> VStr(layout)

MediaOf(m) == IF m.stop # 0 THEN parseMediaFromImage(m.alt, m.src) ELSE Mk("media", "type" :> VStr("file"), <<>>)

parseMediaSingleBlock(attrs, content) ==
    Mk("mediaSingle",
       MediaSingleAttrs(attrs, MapGetOr(attrs, "layout", "align-start"), ScanWidth(MapGet(attrs, "width"))),
       <<MediaOf(ImageFind(content, 1))>>)

RECURSIVE MediaNodesFrom(_, _)
MediaNodesNext(content, m) ==
    IF m.stop = 0 THEN <<>> ELSE <<parseMediaFromImage(m.alt, m.src)>> \o MediaNodesFrom(content, m.stop)

MediaNodesFrom(content, i) == MediaNodesNext(content, ImageFind(content, i))

parseMediaGroupBlock(content) == Mk("mediaGroup", EmptyMap, MediaNodesFrom(content, 1))

CodeBlockTo(lines, startIdx, i) ==
    R(Mk("codeBlock", "language" :> VStr(TrimSpace(TrimPrefix(lines[startIdx], Fence3))),
         <<TextNode(Join(SubSeq(lines, startIdx + 1, i - 1), "\n"), <<>>)>>),
      i + 1, FALSE)

\* parseCodeBlock
parseCodeBlock(lines, startIdx) ==
    CodeBlockTo(lines, startIdx,
                MinOr({j \in (startIdx + 1)..Len(lines) : HasPrefix(lines[j], Fence3)}, Len(lines) + 1))

\* the number of '#' characters the line starts with
HashRun(line) == SpanIn(line, 1, {"#"}) - 1

HeadingAt(line, metadata, level) ==
    IF level = 0 \/ level > 6 \/ Len(line) <= level \/ Ch(line, level + 1) # " " THEN NilNode
    ELSE Mk("heading", StrAttrs(metadata) @@ ("level" :> VInt(level)),
            ParseInlineContent(TrimSpace(Drop(line, level + 1))))

\* parseHeading: the level is stored as a Go int
parseHeading(line, metadata) == HeadingAt(line, metadata, HashRun(line))

TrimEach(parts) == [j \in 1..Len(parts) |-> TrimSpace(parts[j])]

\* parseTableRow
parseTableRow(line) == TrimEach(Split(TrimSet(line, {"|"}), "|"))

TableCells(cells, cellType) ==
    Mk("tableRow", EmptyMap,
       [j \in 1..Len(cells) |->
           Mk(cellType, EmptyMap, <<Mk("paragraph", EmptyMap, ParseInlineContent(cells[j]))>>)])

TableRow(rowLine, cellType) == TableCells(parseTableRow(rowLine), cellType)

RECURSIVE TableRowsFrom(_, _)
TableRowsFrom(rowLines, isFirstRow) ==
    IF Len(rowLines) = 0 THEN <<>>
    ELSE IF Contains(TrimSpace(rowLines[1]), "---") THEN TableRowsFrom(Tail(rowLines), isFirstRow)
    ELSE <<TableRow(TrimSpace(rowLines[1]), IF isFirstRow THEN "tableHeader" ELSE "tableCell")>>
             \o TableRowsFrom(Tail(rowLines), FALSE)

TableNode(tableRows, i) ==
    IF Len(tableRows) = 0 THEN R(NilNode, i, FALSE)
    ELSE R(Mk("table", ("isNumberColumnEnabled" :> VBool(FALSE)) @@ ("layout" :> VStr("default")), tableRows),
           i, FALSE)

TableTo(lines, startIdx, i) == TableNode(TableRowsFrom(SubSeq(lines, startIdx, i - 1), TRUE), i)

\* parseTable
parseTable(lines, startIdx) ==
    TableTo(lines, startIdx, MinOr({j \in startIdx..Len(lines) : ~HasPrefix(lines[j], "|")}, Len(lines) + 1))

TaskItem(m) ==
    Mk("taskItem",
       ("localId" :> VStr(GenerateLocalID)) @@ ("state" :> VStr(IF m.mark \in {"x", "X"} THEN "DONE" ELSE "TODO")),
       ParseInlineContent(m.text))

TaskListTo(lines, startIdx, i) ==
    R(Mk("taskList", "localId" :> VStr(GenerateLocalID),
         [j \in 1..(i - startIdx) |-> TaskItem(TaskMatch(lines[startIdx + j - 1]))]),
      i, FALSE)

\* parseTaskList
parseTaskList(lines, startIdx) ==
    TaskListTo(lines, startIdx, MinOr({j \in startIdx..Len(lines) : ~TaskMatch(lines[j]).ok}, Len(lines) + 1))

\* the block-start test in the loop of parseParagraph
StartsBlock(line) ==
    \/ HasPrefix(line, "#") \/ HasPrefix(line, Fence3) \/ HasPrefix(line, "~~~")
    \/ HasPrefix(line, "> ") \/ BulletStart(line) \/ HasPrefix(line, "|")
    \/ line \in {"---", "***", "___"}

\* the loop of parseParagraph: the cursor after it and the lines it took
RECURSIVE ParagraphLoop(_, _, _)
ParagraphLoop(lines, i, paraLines) ==
    IF i > Len(lines) THEN [end |-> i, paraLines |-> paraLines]
    ELSE IF TrimSpace(lines[i]) = "" THEN [end |-> i + 1, paraLines |-> paraLines]
    ELSE IF Len(paraLines) > 0 /\ (StartsBlock(lines[i]) \/ OrderedStart(lines[i]) \/ TaskMatch(lines[i]).ok)
         THEN [end |-> i, paraLines |-> paraLines]
    ELSE ParagraphLoop(lines, i + 1, Append(paraLines, lines[i]))

\* a paragraph whose lines are joined by a space
ParagraphNodeSpaceJoined(l, metadata) ==
    IF Len(l.paraLines) = 0 THEN R(NilNode, l.end, FALSE)
    ELSE R(Mk("paragraph", StrAttrs(metadata), ParseInlineContent(Join(l.paraLines, " "))), l.end, FALSE)

ParagraphNode(l, metadata) ==
    IF Len(l.paraLines) = 0 THEN R(NilNode, l.end, FALSE)
    ELSE R(Mk("paragraph", StrAttrs(metadata), ParseInlineContent(Join(l.paraLines, "\n"))), l.end, FALSE)

\* parseParagraph
parseParagraph(lines, startIdx, metadata) == ParagraphNode(ParagraphLoop(lines, startIdx, <<>>), metadata)

RECURSIVE ParseBlocksFrom(_, _, _, _)
RECURSIVE ListItemLoop(_, _, _, _)
RECURSIVE BulletLoop(_, _, _, _)
RECURSIVE OrderedLoop(_, _, _, _, _)

LeftTrim(line) == TrimLeftSet(line, {" ", "\t"})

ItemAfterDot(trimmedLine, idx) == IF idx # 0 THEN TrimSpace(Drop(trimmedLine, idx + 1)) ELSE ""

ItemTextOf(trimmedLine) ==
    IF BulletStart(trimmedLine) THEN TrimSpace(Drop(trimmedLine, 2))
    ELSE ItemAfterDot(trimmedLine, Index(trimmedLine, ". "))

\* the text of a list item after its marker (parseListItem, first part)
ItemText(line) == ItemTextOf(LeftTrim(line))

BulletNode(l, startIdx) ==
    IF l.div THEN R(NilNode, startIdx, TRUE)
    ELSE IF Len(l.items) = 0 THEN R(NilNode, startIdx, FALSE)
    ELSE R(Mk("bulletList", EmptyMap, l.items), l.end, FALSE)

\* parseBulletList: [node, end, div]
parseBulletList(lines, startIdx, depth) == BulletNode(BulletLoop(lines, startIdx, depth, <<>>), startIdx)

OrderedNode(l, startIdx) ==
    IF l.div THEN R(NilNode, startIdx, TRUE)
    ELSE IF Len(l.items) = 0 THEN R(NilNode, startIdx, FALSE)
    ELSE R(Mk("orderedList", IF l.startOrder # 1 THEN "order" :> VInt(l.startOrder) ELSE EmptyMap, l.items),
           l.end, FALSE)

\* parseOrderedList: the start number is stored as a Go int, and only when it is not 1
parseOrderedList(lines, startIdx, depth) == OrderedNode(OrderedLoop(lines, startIdx, depth, <<>>, 1), startIdx)

\* parseListItem: [content, end, div]
parseListItem(lines, startIdx, depth) ==
    ListItemLoop(lines, startIdx + 1, depth,
                 <<Mk("paragraph", EmptyMap, ParseInlineContent(ItemText(lines[startIdx])))>>)

ItemDone(content, i, div) == [content |-> content, end |-> i, div |-> div]

\* A nested parser that finds no item returns (nil, startIdx): the loop then
\* assigns i = i and continues with the same i and the same content, for ever.
ListItemAfter(lines, i, depth, content, nested) ==
    IF nested.div \/ (nested.node = NilNode /\ nested.end = i) THEN ItemDone(content, i, TRUE)
    ELSE ListItemLoop(lines, nested.end, depth, AppendNode(content, nested.node))

ListItemNested(lines, i, depth, content, trimmedNext) ==
    IF BulletStart(trimmedNext) THEN ListItemAfter(lines, i, depth, content, parseBulletList(lines, i, depth + 1))
    ELSE IF OrderedStart(trimmedNext)
         THEN ListItemAfter(lines, i, depth, content, parseOrderedList(lines, i, depth + 1))
    ELSE IF TaskMatch(trimmedNext).ok THEN ListItemAfter(lines, i, depth, content, parseTaskList(lines, i))
    ELSE ItemDone(content, i, FALSE)

\* the nested-content loop of parseListItem
ListItemLoop(lines, i, depth, content) ==
    IF i > Len(lines) THEN ItemDone(content, i, FALSE)
    ELSE IF TrimSpace(lines[i]) = "" THEN ListItemLoop(lines, i + 1, depth, content)
    ELSE IF GetIndentLevel(lines[i]) < depth + 1 THEN ItemDone(content, i, FALSE)
    ELSE ListItemNested(lines, i, depth, content, LeftTrim(lines[i]))

ListDone(items, i, div, startOrder) == [items |-> items, end |-> i, div |-> div, startOrder |-> startOrder]

BulletItem(lines, i, depth, items, item) ==
    IF item.div THEN ListDone(items, i, TRUE, 1)
    ELSE BulletLoop(lines, item.end, depth, Append(items, Mk("listItem", EmptyMap, item.content)))

\* the loop of parseBulletList
BulletLoop(lines, i, depth, items) ==
    IF i > Len(lines) THEN ListDone(items, i, FALSE, 1)
    ELSE IF TrimSpace(lines[i]) = "" THEN ListDone(items, i + 1, FALSE, 1)
    ELSE IF GetIndentLevel(lines[i]) # depth \/ ~BulletStart(LeftTrim(lines[i])) THEN ListDone(items, i, FALSE, 1)
    ELSE BulletItem(lines, i, depth, items, parseListItem(lines, i, depth))

OrderedItem(lines, i, depth, items, startOrder, item) ==
    IF item.div THEN ListDone(items, i, TRUE, startOrder)
    ELSE OrderedLoop(lines, item.end, depth, Append(items, Mk("listItem", EmptyMap, item.content)), startOrder)

OrderedFirst(lines, i, depth, items, startOrder, m) ==
    IF GetIndentLevel(lines[i]) # depth \/ ~m.ok THEN ListDone(items, i, FALSE, startOrder)
    ELSE OrderedItem(lines, i, depth, items, IF Len(items) = 0 THEN Atoi(m.number) ELSE startOrder,
                     parseListItem(lines, i, depth))

\* the loop of parseOrderedList
OrderedLoop(lines, i, depth, items, startOrder) ==
    IF i > Len(lines) THEN ListDone(items, i, FALSE, startOrder)
    ELSE IF TrimSpace(lines[i]) = "" THEN ListDone(items, i + 1, FALSE, startOrder)
    ELSE OrderedFirst(lines, i, depth, items, startOrder, OrderedMatch(LeftTrim(lines[i])))

\* parseBlocks: [content, div]
parseBlocks(lines) == ParseBlocksFrom(lines, 1, EmptyMap, <<>>)

PanelNode(attrs, inner) ==
    [node |-> Mk("panel", "panelType" :> VStr(MapGetOr(attrs, "type", "info")), inner.content), div |-> inner.div]

\* parsePanelBlock
parsePanelBlock(attrs, content) == PanelNode(attrs, parseBlocks(Split(content, "\n")))

ExpandNode(attrs, inner) ==
    [node |-> Mk("expand", "title" :> VStr(MapGet(attrs, "title")), inner.content), div |-> inner.div]

\* parseExpandBlock
parseExpandBlock(attrs, content) == ExpandNode(attrs, parseBlocks(Split(content, "\n")))

Returns(node) == [node |-> node, div |-> FALSE]

\* the switch of parseFenceBlock
FenceSwitch(blockType, attrs, innerContent) ==
    CASE blockType = "panel" -> parsePanelBlock(attrs, innerContent)
      [] blockType = "expand" -> parseExpandBlock(attrs, innerContent)
      [] blockType = "mediaSingle" -> Returns(parseMediaSingleBlock(attrs, innerContent))
      [] blockType = "mediaGroup" -> Returns(parseMediaGroupBlock(innerContent))
      [] OTHER -> Returns(Mk("codeBlock", "language" :> VStr(blockType), <<TextNode(innerContent, <<>>)>>))

FenceAt(inner, i) == R(inner.node, i, inner.div)

FenceBody(lines, startIdx, blockType, attrStr, close) ==
    FenceAt(FenceSwitch(blockType, ParseAttrs(attrStr), Join(SubSeq(lines, startIdx + 1, close - 1), "\n")),
            IF close > Len(lines) THEN close ELSE close + 1)

\* parseFenceBlock: the body runs up to the first line that FenceCloseRe matches
parseFenceBlock(lines, startIdx, blockType, attrStr) ==
    FenceBody(lines, startIdx, blockType, attrStr,
              MinOr({j \in (startIdx + 1)..Len(lines) : FenceClose(lines[j])}, Len(lines) + 1))

QuoteLine(line) == IF HasPrefix(line, "> ") THEN TrimPrefix(line, "> ") ELSE ""

QuoteNode(inner, i) == R(Mk("blockquote", EmptyMap, inner.content), i, inner.div)

QuoteTo(lines, startIdx, i) ==
    QuoteNode(parseBlocks([j \in 1..(i - startIdx) |-> QuoteLine(lines[startIdx + j - 1])]), i)

\* parseBlockquote
parseBlockquote(lines, startIdx) ==
    QuoteTo(lines, startIdx,
            MinOr({j \in startIdx..Len(lines) : ~(HasPrefix(lines[j], "> ") \/ lines[j] = ">")}, Len(lines) + 1))

BlockImage(lines, i, pendingMetadata, img) ==
    IF img.stop # 0 THEN R(parseStandaloneImage(img.alt, img.src), i + 1, FALSE)
    ELSE parseParagraph(lines, i, pendingMetadata)

BlockOther(lines, i, pendingMetadata, line) ==
    IF HasPrefix(line, Fence3) THEN parseCodeBlock(lines, i)
    ELSE IF HasPrefix(line, "#") THEN R(parseHeading(line, pendingMetadata), i + 1, FALSE)
    ELSE IF line \in {"---", "***", "___"} THEN R(Mk("rule", EmptyMap, <<>>), i + 1, FALSE)
    ELSE IF HasPrefix(line, "> ") \/ line = ">" THEN parseBlockquote(lines, i)
    ELSE IF HasPrefix(line, "|") /\ Contains(line, "|") THEN parseTable(lines, i)
    ELSE IF TaskMatch(line).ok THEN parseTaskList(lines, i)
    ELSE IF BulletStart(line) THEN parseBulletList(lines, i, 0)
    ELSE IF OrderedStart(line) THEN parseOrderedList(lines, i, 0)
    ELSE BlockImage(lines, i, pendingMetadata, ImageLine(TrimSpace(line)))

BlockFence(lines, i, pendingMetadata, f) ==
    IF f.ok THEN parseFenceBlock(lines, i, f.blockType, f.attrStr)
    ELSE BlockOther(lines, i, pendingMetadata, lines[i])

\* The block the line at i starts, in the order parseBlocks tests for it.
\* A heading, a rule and an image take one line; parseHeading may give nil.
BlockAt(lines, i, pendingMetadata) == BlockFence(lines, i, pendingMetadata, FenceMatch(lines[i]))

ParseBlocksStep(lines, content, b) ==
    IF b.div THEN [content |-> content, div |-> TRUE]
    ELSE ParseBlocksFrom(lines, b.end, EmptyMap, AppendNode(content, b.node))

\* a variant in which a comment does not replace pending metadata
ParseBlocksMetaKept(lines, i, pendingMetadata, content, m) ==
    IF m.ok
    THEN ParseBlocksFrom(lines, i + 1, IF DOMAIN pendingMetadata = {} THEN ParseAttrs(m.attrs) ELSE pendingMetadata,
                         content)
    ELSE ParseBlocksStep(lines, content, BlockAt(lines, i, pendingMetadata))

ParseBlocksMeta(lines, i, pendingMetadata, content, m) ==
    IF m.ok THEN ParseBlocksFrom(lines, i + 1, ParseAttrs(m.attrs), content)
    ELSE ParseBlocksStep(lines, content, BlockAt(lines, i, pendingMetadata))

\* the loop of parseBlocks
ParseBlocksFrom(lines, i, pendingMetadata, content) ==
    IF i > Len(lines) THEN [content |-> content, div |-> FALSE]
    ELSE IF TrimSpace(lines[i]) = "" THEN ParseBlocksFrom(lines, i + 1, pendingMetadata, content)
    ELSE ParseBlocksMeta(lines, i, pendingMetadata, content, MetadataMatch(lines[i]))

\* the value the model gives a call that never returns
Diverges == Mk("<diverges>", EmptyMap, <<>>)

DocOf(p) == IF p.div THEN Diverges ELSE Mk("doc", "version" :> VInt(1), p.content)

\* FromMarkdown / parseMarkdownDocument
FromMarkdown(text) == DocOf(parseBlocks(Split(text, "\n")))

(***************************************************************************)
(* renderer (to_md.go, utils.go)                                           *)
(***************************************************************************)
Quoted(key, text) == key \o "=\"" \o text \o "\""

FormatValue(key, v) ==
    CASE v.k = "string" -> IF v.s # "" THEN Quoted(key, v.s) ELSE ""
      [] v.k \in {"float64", "int"} -> Quoted(key, Itoa(v.n))
      [] v.k = "bool" -> Quoted(key, IF v.n = 1 THEN "true" ELSE "false")

\* one key of FormatAttrsForFence: the part it appends, "" when it appends none
FormatAttr(attrs, key) == IF key \notin DOMAIN attrs THEN "" ELSE FormatValue(key, attrs[key])

NonEmpty(parts) == SelectSeq(parts, LAMBDA x : x # "")

SpaceJoined(parts) == IF Len(parts) = 0 THEN "" ELSE " " \o Join(parts, " ")

FormatAttrsForFence(attrs, keys) == SpaceJoined(NonEmpty([j \in 1..Len(keys) |-> FormatAttr(attrs, keys[j])]))

\* regexp `\n{3,}` replaced by "\n\n": every maximal run of three or more
RECURSIVE CollapseNewlines(_)
CollapseAt(text, k) ==
    IF k = 0 THEN text
    ELSE SubSeq(text, 1, k - 1) \o "\n\n" \o CollapseNewlines(Drop(text, SpanIn(text, k, {"\n"}) - 1))

CollapseNewlines(text) == CollapseAt(text, Index(text, "\n\n\n"))

TrimLines(lines) == [j \in 1..Len(lines) |-> TrimRightSet(lines[j], {" ", "\t"})]

NormalizeWhitespace(text) == TrimSpace(Join(TrimLines(Split(CollapseNewlines(text), "\n")), "\n"))

HasMark(marks, type) == \E j \in 1..Len(marks) : marks[j].type = type

MarkAt(marks, type, j) == IF j = 0 THEN EmptyMap ELSE marks[j].attrs

\* the attrs of the last mark of the given type, the empty map when there is none
LastMark(marks, type) == MarkAt(marks, type, MaxOr({j \in 1..Len(marks) : marks[j].type = type}, 0))

\* applyMarks: one wrapping step per kind, in the order of the source
WrapCode(marks, r) == IF HasMark(marks, "code") THEN BT \o r \o BT ELSE r

LinkOf(a, r) ==
    IF AttrStr(a, "title") # ""
    THEN "[" \o r \o "](" \o AttrStr(a, "href") \o " \"" \o AttrStr(a, "title") \o "\")"
    ELSE "[" \o r \o "](" \o AttrStr(a, "href") \o ")"

WrapLink(marks, r) == IF HasMark(marks, "link") THEN LinkOf(LastMark(marks, "link"), r) ELSE r

WrapEm(marks, r) == IF HasMark(marks, "em") THEN "*" \o r \o "*" ELSE r

WrapStrong(marks, r) == IF HasMark(marks, "strong") THEN "**" \o r \o "**" ELSE r

WrapStrike(marks, r) == IF HasMark(marks, "strike") THEN "~~" \o r \o "~~" ELSE r

WrapUnderline(marks, r) == IF HasMark(marks, "underline") THEN "<u>" \o r \o "</u>" ELSE r

ColorOf(c, r) == IF c # "" THEN "{color:" \o c \o "}" \o r \o "{color}" ELSE r

WrapTextColor(marks, r) == ColorOf(AttrStr(LastMark(marks, "textColor"), "color"), r)

BackgroundOf(c, r) == IF c # "" THEN "<mark style=\"background:" \o c \o "\">" \o r \o "</mark>" ELSE r

WrapBgColor(marks, r) == BackgroundOf(AttrStr(LastMark(marks, "backgroundColor"), "color"), r)

SubsupOf(t, r) ==
    IF t = "sub" THEN "<sub>" \o r \o "</sub>" ELSE IF t = "sup" THEN "<sup>" \o r \o "</sup>" ELSE r

WrapSubsup(marks, r) == IF HasMark(marks, "subsup") THEN SubsupOf(AttrStr(LastMark(marks, "subsup"), "type"), r) ELSE r

\* the wrapping of one mark around r
WrapOne(mark, r) ==
    CASE mark.type = "code" -> BT \o r \o BT
      [] mark.type = "link" -> LinkOf(mark.attrs, r)
      [] mark.type = "em" -> "*" \o r \o "*"
      [] mark.type = "strong" -> "**" \o r \o "**"
      [] mark.type = "strike" -> "~~" \o r \o "~~"
      [] mark.type = "underline" -> "<u>" \o r \o "</u>"
      [] mark.type = "textColor" -> ColorOf(AttrStr(mark.attrs, "color"), r)
      [] mark.type = "backgroundColor" -> BackgroundOf(AttrStr(mark.attrs, "color"), r)
      [] mark.type = "subsup" -> SubsupOf(AttrStr(mark.attrs, "type"), r)
      [] OTHER -> r

\* a composition that wraps the marks in the order of the list
RECURSIVE ApplyMarksAsListed(_, _)
ApplyMarksAsListed(text, marks) ==
    IF Len(marks) = 0 THEN text ELSE ApplyMarksAsListed(WrapOne(marks[1], text), Tail(marks))

applyMarks(text, marks) ==
    WrapSubsup(marks, WrapBgColor(marks, WrapTextColor(marks, WrapUnderline(marks, WrapStrike(marks,
        WrapStrong(marks, WrapEm(marks, WrapLink(marks, WrapCode(marks, text)))))))))

renderText(node) ==
    IF node.text = "" THEN ""
    ELSE IF Len(node.marks) = 0 THEN node.text
    ELSE applyMarks(node.text, node.marks)

OrDefault(s, default) == IF s = "" THEN default ELSE s

MediaImage(attrs, alt) ==
    IF AttrStr(attrs, "id") # ""
    THEN "![" \o alt \o "](jira-media:" \o AttrStr(attrs, "id") \o ":" \o AttrStr(attrs, "collection")
             \o ":" \o AttrStr(attrs, "type") \o ")"
    ELSE "[" \o alt \o "]"

renderMedia(node) == MediaImage(node.attrs, OrDefault(AttrStr(node.attrs, "alt"), "attachment"))

EmojiOf(attrs, shortName) ==
    IF shortName # ""
    THEN IF HasPrefix(shortName, ":") /\ HasSuffix(shortName, ":") THEN shortName ELSE ":" \o shortName \o ":"
    ELSE AttrStr(attrs, "text")

renderEmoji(node) == EmojiOf(node.attrs, AttrStr(node.attrs, "shortName"))

MentionOf(id, text) ==
    IF id # "" THEN "@[" \o OrDefault(TrimPrefix(text, "@"), id) \o "](accountId:" \o id \o ")"
    ELSE IF text # "" THEN text
    ELSE "@unknown"

renderMention(node) == MentionOf(AttrStr(node.attrs, "id"), AttrStr(node.attrs, "text"))

StatusOf(text, color) ==
    IF text = "" THEN ""
    ELSE IF color # "" THEN "{status:" \o text \o "|color=" \o color \o "}"
    ELSE "{status:" \o text \o "}"

renderStatus(node) == StatusOf(AttrStr(node.attrs, "text"), AttrStr(node.attrs, "color"))

DateOf(timestamp) == IF timestamp = "" THEN "" ELSE "{date:" \o FormatTimestamp(timestamp) \o "}"

renderDate(node) == DateOf(AttrStr(node.attrs, "timestamp"))

renderInlineCard(node) ==
    IF HasStr(node.attrs, "url") THEN "{card:" \o AttrStr(node.attrs, "url") \o "}" ELSE ""

RECURSIVE renderADFNode(_, _)

\* strings.Join of a sequence of strings with the empty separator
Concat(parts) == Join(parts, "")

RenderEach(content, depth) == [j \in 1..Len(content) |-> renderADFNode(content[j], depth)]

\* renderContent: the children rendered at depth 0, concatenated
renderContent(node) == Concat(RenderEach(node.content, 0))

\* renderBlockContent: the non-empty renderings joined by a blank line
renderBlockContent(node) == Join(NonEmpty(RenderEach(node.content, 0)), "\n\n")

ParagraphWith(text, attrStr) == IF attrStr # "" THEN "<!-- adf:paragraph" \o attrStr \o " -->\n" \o text ELSE text

renderParagraph(node) == ParagraphWith(renderContent(node), FormatAttrsForFence(node.attrs, <<"textAlign">>))

Clamp(level) == IF level < 1 THEN 1 ELSE IF level > 6 THEN 6 ELSE level

CustomAttrs(attrs) == [key \in DOMAIN attrs \ {"level"} |-> attrs[key]]

HeadingWith(line, attrStr) == IF attrStr # "" THEN "<!-- adf:heading" \o attrStr \o " -->\n" \o line ELSE line

\* renderHeading: the level is read with the type assertion .(float64)
renderHeading(node) ==
    HeadingWith(Repeat("#", Clamp(FloatOr(node.attrs, "level", 1))) \o " " \o renderContent(node),
                FormatAttrsForFence(CustomAttrs(node.attrs), <<"id", "textAlign">>))

ListTypes == {"bulletList", "orderedList", "taskList"}

\* what one child of a list item adds to parts
ItemPart(child, j, depth) ==
    IF child.type \in ListTypes THEN ""
    ELSE IF child.type = "paragraph"
         THEN IF j = 1 THEN renderContent(child) ELSE "\n" \o Repeat("  ", depth + 1) \o renderContent(child)
    ELSE renderADFNode(child, depth + 1)

ItemParts(c, depth) == Concat([j \in 1..Len(c) |-> ItemPart(c[j], j, depth)])

\* nestedLists: the list children rendered one level deeper
NestedLists(c, depth) == RenderEach(SelectSeq(c, LAMBDA x : x.type \in ListTypes), depth + 1)

WithNested(result, nestedLists) ==
    IF Len(nestedLists) > 0 THEN result \o "\n" \o Join(nestedLists, "\n") ELSE result

\* a list item whose nested lists are rendered at the depth of the item
ListItemContentAtDepth(node, depth) ==
    TrimRightSet(WithNested(ItemParts(node.content, depth), NestedLists(node.content, depth - 1)), {"\n"})

\* renderListItemContent.  A nested list goes through the dispatch of
\* renderADFNode, which calls the list renderer the source calls directly.
renderListItemContent(node, depth) ==
    TrimRightSet(WithNested(ItemParts(node.content, depth), NestedLists(node.content, depth)), {"\n"})

renderBulletList(node, depth) ==
    Join([j \in 1..Len(node.content) |->
             Repeat("  ", depth) \o "- " \o renderListItemContent(node.content[j], depth)],
         "\n")

OrderedLines(content, depth, startOrder) ==
    Join([j \in 1..Len(content) |->
             Repeat("  ", depth) \o Itoa(startOrder + j - 1) \o ". " \o renderListItemContent(content[j], depth)],
         "\n")

\* renderOrderedList: the start is read with the type assertion .(float64)
renderOrderedList(node, depth) == OrderedLines(node.content, depth, FloatOr(node.attrs, "order", 1))

Checkbox(item) ==
    IF HasStr(item.attrs, "state") /\ AttrStr(item.attrs, "state") = "DONE" THEN "[x]" ELSE "[ ]"

renderTaskList(node, depth) ==
    Join([j \in 1..Len(node.content) |->
             Repeat("  ", depth) \o "- " \o Checkbox(node.content[j]) \o " " \o renderContent(node.content[j])],
         "\n")

renderTaskItem(node, depth) == Checkbox(node) \o " " \o renderContent(node)

renderCodeBlock(node) ==
    Fence3 \o AttrStr(node.attrs, "language") \o "\n" \o renderContent(node) \o "\n" \o Fence3

QuoteEach(lines) == Join([j \in 1..Len(lines) |-> "> " \o lines[j]], "\n")

renderBlockquote(node) == QuoteEach(Split(TrimRightSet(renderContent(node), {"\n"}), "\n"))

renderPanel(node) ==
    "~~~panel type=" \o (IF HasStr(node.attrs, "panelType") THEN AttrStr(node.attrs, "panelType") ELSE "info")
        \o "\n" \o TrimSpace(renderBlockContent(node)) \o "\n~~~"

ExpandWith(title, content) ==
    IF title # "" THEN "~~~expand title=\"" \o title \o "\"\n" \o content \o "\n~~~"
    ELSE "~~~expand\n" \o content \o "\n~~~"

renderExpand(node) == ExpandWith(AttrStr(node.attrs, "title"), TrimSpace(renderBlockContent(node)))

\* the text of one cell of renderTable
CellText(cell) == ReplaceAll(ReplaceAll(TrimSpace(renderContent(cell)), "\n", " "), "|", "\\|")

RowCells(row) == [j \in 1..Len(row.content) |-> CellText(row.content[j])]

HasHeader(row) == \E j \in 1..Len(row.content) : row.content[j].type = "tableHeader"

Separator(colCount) == "| " \o Join([j \in 1..colCount |-> "---"], " | ") \o " |"

Padded(cells, colCount) == [j \in 1..colCount |-> IF j <= Len(cells) THEN cells[j] ELSE ""]

\* the lines the first loop over the rows writes
RECURSIVE TableLines(_, _, _)
TableLines(rows, isHeaderRow, colCount) ==
    IF Len(rows) = 0 THEN <<>>
    ELSE <<"| " \o Join(Padded(rows[1], colCount), " | ") \o " |">>
             \o (IF isHeaderRow[1] THEN <<Separator(colCount)>> ELSE <<>>)
             \o TableLines(Tail(rows), Tail(isHeaderRow), colCount)

\* the separator put after the first line when the first row has no header cell
TableFinal(lines, firstIsHeader, colCount) ==
    IF ~firstIsHeader THEN <<lines[1], Separator(colCount)>> \o Tail(lines) ELSE lines

TableText(rows, isHeaderRow, colCount) ==
    Join(TableFinal(TableLines(rows, isHeaderRow, colCount), isHeaderRow[1], colCount), "\n")

TableOf(rows, isHeaderRow) ==
    TableText(rows, isHeaderRow, Max({0} \cup {Len(rows[i]) : i \in 1..Len(rows)}))

\* renderTable
renderTable(node) ==
    IF Len(node.content) = 0 THEN ""
    ELSE TableOf([i \in 1..Len(node.content) |-> RowCells(node.content[i])],
                 [i \in 1..Len(node.content) |-> HasHeader(node.content[i])])

MediaSingleParts(layout, width, widthType) ==
    (IF layout # "" THEN <<"layout=" \o layout>> ELSE <<>>)
        \o (IF width # "" THEN <<"width=" \o width>> ELSE <<>>)
        \o (IF width # "" /\ widthType # "" THEN <<"widthType=" \o widthType>> ELSE <<>>)

renderMediaSingle(node) ==
    "~~~mediaSingle"
        \o SpaceJoined(MediaSingleParts(AttrStr(node.attrs, "layout"),
                                        IF HasFloat(node.attrs, "width") THEN Itoa(node.attrs["width"].n) ELSE "",
                                        AttrStr(node.attrs, "widthType")))
        \o "\n" \o TrimSpace(renderContent(node)) \o "\n~~~"

renderMediaGroup(node) == "~~~mediaGroup\n" \o TrimSpace(renderContent(node)) \o "\n~~~"

renderADFNode(node, depth) ==
    CASE node.type = "paragraph" -> renderParagraph(node)
      [] node.type = "text" -> renderText(node)
      [] node.type = "hardBreak" -> "  \n"
      [] node.type = "heading" -> renderHeading(node)
      [] node.type = "bulletList" -> renderBulletList(node, depth)
      [] node.type = "orderedList" -> renderOrderedList(node, depth)
      [] node.type = "taskList" -> renderTaskList(node, depth)
      [] node.type = "listItem" -> renderListItemContent(node, depth)
      [] node.type = "taskItem" -> renderTaskItem(node, depth)
      [] node.type = "codeBlock" -> renderCodeBlock(node)
      [] node.type = "blockquote" -> renderBlockquote(node)
      [] node.type = "rule" -> "---"
      [] node.type = "panel" -> renderPanel(node)
      [] node.type \in {"expand", "nestedExpand"} -> renderExpand(node)
      [] node.type = "table" -> renderTable(node)
      [] node.type = "mediaSingle" -> renderMediaSingle(node)
      [] node.type = "mediaGroup" -> renderMediaGroup(node)
      [] node.type = "media" -> renderMedia(node)
      [] node.type = "emoji" -> renderEmoji(node)
      [] node.type = "mention" -> renderMention(node)
      [] node.type = "status" -> renderStatus(node)
      [] node.type = "date" -> renderDate(node)
      [] node.type = "inlineCard" -> renderInlineCard(node)
      [] OTHER -> renderContent(node)

\* ToMarkdown / renderADFDocument
ToMarkdown(doc) == NormalizeWhitespace(renderBlockContent(doc))

(***************************************************************************)
(* JSON, checksums, and the files behind pending media                     *)
(***************************************************************************)
\* the attribute keys, in the sorted order json.Marshal writes a map in
JsonKeys ==
    <<"_source", "alt", "collection", "color", "href", "id", "isNumberColumnEnabled", "language",
      "layout", "level", "localId", "order", "panelType", "shortName", "state", "text", "timestamp",
      "title", "type", "url", "width", "widthType">>

JsonString(s) == "\"" \o s \o "\""

JsonValue(v) ==
    IF v.k = "string" THEN JsonString(v.s)
    ELSE IF v.k = "bool" THEN (IF v.n = 1 THEN "true" ELSE "false")
    ELSE Itoa(v.n)

JsonPair(key, text) == JsonString(key) \o ":" \o text

JsonObject(pairs) == "{" \o Join(pairs, ",") \o "}"

JsonArray(items) == "[" \o Join(items, ",") \o "]"

JsonMapOf(attrs, keys) == JsonObject([j \in 1..Len(keys) |-> JsonPair(keys[j], JsonValue(attrs[keys[j]]))])

JsonMap(attrs) == JsonMapOf(attrs, SelectSeq(JsonKeys, LAMBDA key : key \in DOMAIN attrs))

JsonMark(mark) ==
    JsonObject((IF DOMAIN mark.attrs # {} THEN <<JsonPair("attrs", JsonMap(mark.attrs))>> ELSE <<>>)
                   \o <<JsonPair("type", JsonString(mark.type))>>)

\* json.Marshal of a node: the keys present, sorted; a key whose value is
\* empty is left out
RECURSIVE Marshal(_)
MarshalWith(node, children) ==
    JsonObject((IF node.type # "doc" /\ DOMAIN node.attrs # {}
                THEN <<JsonPair("attrs", JsonMap(node.attrs))>> ELSE <<>>)
                   \o (IF Len(children) > 0 \/ node.type = "doc"
                       THEN <<JsonPair("content", JsonArray(children))>> ELSE <<>>)
                   \o (IF Len(node.marks) > 0
                       THEN <<JsonPair("marks", JsonArray([j \in 1..Len(node.marks) |-> JsonMark(node.marks[j])]))>>
                       ELSE <<>>)
                   \o (IF node.type = "text" THEN <<JsonPair("text", JsonString(node.text))>> ELSE <<>>)
                   \o <<JsonPair("type", JsonString(node.type))>>
                   \o (IF node.type = "doc" THEN <<JsonPair("version", JsonValue(node.attrs["version"]))>> ELSE <<>>))

Marshal(node) == MarshalWith(node, [j \in 1..Len(node.content) |-> Marshal(node.content[j])])

\* the first 8 bytes of the SHA-256 of s in hexadecimal, as a one-to-one
\* function of s: two texts with the same 64 bits are not in the model
Sha256Hex8(s) == "sha256:" \o s

ComputeFieldChecksum(value) == Sha256Hex8(value)

hashString(s) == Sha256Hex8(s)

\* The fields of an issue in the model are summary (a string), description
\* (a document) and duedate (a field the checksums do not track).
GetCanonicalFieldValue(fieldName, fields) ==
    CASE fieldName = "summary" /\ "summary" \in DOMAIN fields -> fields["summary"]
      [] fieldName = "description" /\ "description" \in DOMAIN fields -> Marshal(fields["description"])
      [] OTHER -> ""

\* the names in S as sort.Strings orders them
FieldOrder == <<"body", "description", "duedate", "summary", "title", "version">>

SortStrings(S) == SelectSeq(FieldOrder, LAMBDA name : name \in S)

ComputeFieldsChecksums(fields, fieldNames) ==
    [name \in fieldNames |-> ComputeFieldChecksum(GetCanonicalFieldValue(name, fields))]

\* a page is [title, body, version], body the ADF JSON text the server holds
ComputePageChecksums(page) ==
    [field \in {"title", "body", "version"} |->
        hashString(CASE field = "title" -> page.title
                     [] field = "body" -> page.body
                     [] OTHER -> Itoa(page.version))]

\* the sequences that list every element of S once
Orders(S) == {f \in [1..Cardinality(S) -> S] : \A i, j \in 1..Cardinality(S) : i # j => f[i] # f[j]}

LastIndex(s, c) == MaxOr({j \in 1..Len(s) : Ch(s, j) = c}, 0)

\* filepath.Base
BaseOf(stripped) == IF stripped = "" THEN "/" ELSE Drop(stripped, LastIndex(stripped, "/"))

Base(path) == IF path = "" THEN "." ELSE BaseOf(TrimRightSet(path, {"/"}))

\* filepath.Ext
ExtAt(path, slash, dot) == IF dot > slash THEN Drop(path, dot - 1) ELSE ""

Ext(path) == ExtAt(path, LastIndex(path, "/"), LastIndex(path, "."))

Uppers == "ABCDEFGHIJKLMNOPQRSTUVWXYZ"

Lowers == "abcdefghijklmnopqrstuvwxyz"

LowerCh(c) == IF Index(Uppers, c) # 0 THEN Ch(Lowers, Index(Uppers, c)) ELSE c

ToLower(s) == Concat([j \in 1..Len(s) |-> LowerCh(Ch(s, j))])

SafeCh(c) == IF Index(Lowers \o Uppers \o "0123456789-_", c) # 0 THEN c ELSE "_"

ExtCh(c) == IF Index(Lowers \o "0123456789", c) # 0 THEN c ELSE ""

RECURSIVE CollapseUnderscores(_)
CollapseUnderscores(s) == IF Contains(s, "__") THEN CollapseUnderscores(ReplaceAll(s, "__", "_")) ELSE s

OrAttachment(sanitized) == IF sanitized = "" THEN "attachment" ELSE sanitized

SanitizeBase(base) ==
    OrAttachment(TrimSet(CollapseUnderscores(Concat([j \in 1..Len(base) |-> SafeCh(Ch(base, j))])), {"_"}))

SanitizeExt(ext) ==
    IF ext = "" THEN "" ELSE "." \o Concat([j \in 1..(Len(ext) - 1) |-> ExtCh(LowerCh(Ch(ext, j + 1)))])

SanitizeWith(name, ext) == SanitizeBase(SubSeq(name, 1, Len(name) - Len(ext))) \o SanitizeExt(ext)

sanitizeFilename(name) == IF name = "" THEN "attachment" ELSE SanitizeWith(name, Ext(name))

maxJiraAttachmentSize == 10485760

maxConfluenceAttachmentSize == 26214400

supportedMediaExtensions == {".gif", ".jpg", ".jpeg", ".png", ".bmp"}

PendingPrefix == "__PENDING_UPLOAD_"

\* The files and URLs the image sources of the model name: whether reading
\* or downloading one succeeds, and how many bytes it gives.
Files ==
    [source \in {"http://h/ok.png", "/p/g.png", "/p/doc.txt", "/p/empty.png", "/p/missing.png", "/p/big.png"} |->
        CASE source = "/p/doc.txt" -> [exists |-> TRUE, size |-> 10]
          [] source = "/p/empty.png" -> [exists |-> TRUE, size |-> 0]
          [] source = "/p/missing.png" -> [exists |-> FALSE, size |-> 0]
          [] source = "/p/big.png" -> [exists |-> TRUE, size |-> 20971520]
          [] OTHER -> [exists |-> TRUE, size |-> 2048]]

\* os.ReadFile(source) and downloadFile(source): a response carries no
\* Content-Disposition header, so both name the file filepath.Base(source)
FileAt(source) == IF source \in DOMAIN Files THEN Files[source] ELSE [exists |-> FALSE, size |-> 0]

IsURL(source) == HasPrefix(source, "http://") \/ HasPrefix(source, "https://")

OrPng(ext) == IF ext = "" THEN ".png" ELSE ext

\* lines 335-341 of attachment.go: the alt text names the file when there is one
NamedAfterAlt(alt, filename) ==
    IF alt # "" /\ alt # "attachment" THEN alt \o OrPng(Ext(filename)) ELSE filename

\* a pendingUpload; path leads from the document to the media node whose
\* attributes nodeAttrs points at, size is len(data)
PendingUpload(path, attrs, file) ==
    [path |-> path, size |-> file.size, source |-> AttrStr(attrs, "_source"),
     filename |-> sanitizeFilename(NamedAfterAlt(AttrStr(attrs, "alt"), Base(AttrStr(attrs, "_source"))))]

Collected(uploads, err) == [uploads |-> uploads, err |-> err]

\* the mediaSingle node holds a pending media node with a source to read
IsPendingSingle(node) ==
    /\ node.type = "mediaSingle"
    /\ Len(node.content) > 0
    /\ HasPrefix(AttrStr(node.content[1].attrs, "id"), PendingPrefix)
    /\ AttrStr(node.content[1].attrs, "_source") # ""

\* collectPendingUploads(adf) for adf = {"content": content}, from node k on
RECURSIVE CollectFrom(_, _, _, _)
CollectAfter(content, path, k, uploads, inner) ==
    IF inner.err # "" THEN inner ELSE CollectFrom(content, path, k + 1, uploads \o inner.uploads)

CollectInner(content, path, k, uploads) ==
    CollectAfter(content, path, k, uploads, CollectFrom(content[k].content, Append(path, k), 1, <<>>))

CollectFile(content, path, k, uploads, attrs, file) ==
    IF ~file.exists
    THEN Collected(<<>>, (IF IsURL(AttrStr(attrs, "_source")) THEN "failed to download " ELSE "failed to read ")
                             \o AttrStr(attrs, "_source"))
    ELSE CollectInner(content, path, k, Append(uploads, PendingUpload(Append(Append(path, k), 1), attrs, file)))

CollectNode(content, path, k, uploads, node) ==
    IF node.type # "mediaSingle" THEN CollectInner(content, path, k, uploads)
    ELSE IF ~IsPendingSingle(node) THEN CollectFrom(content, path, k + 1, uploads)
    ELSE CollectFile(content, path, k, uploads, node.content[1].attrs,
                     FileAt(AttrStr(node.content[1].attrs, "_source")))

CollectFrom(content, path, k, uploads) ==
    IF k > Len(content) THEN Collected(uploads, "")
    ELSE CollectNode(content, path, k, uploads, content[k])

collectPendingUploads(adf) == CollectFrom(adf.content, <<>>, 1, <<>>)

\* the entry validatePendingUploads adds to errors for one upload, if any
UploadError(u, maxSize) ==
    IF u.size = 0 THEN <<u.source \o ": empty file">>
    ELSE IF u.size > maxSize THEN <<u.source \o ": exceeds " \o Itoa(maxSize \div 1048576) \o "MB limit">>
    ELSE IF u.filename = "" THEN <<u.source \o ": invalid filename">>
    ELSE IF ToLower(Ext(u.filename)) \notin supportedMediaExtensions
    THEN <<u.source \o ": unsupported file type " \o JsonString(ToLower(Ext(u.filename)))
               \o " (supported: gif, jpg, jpeg, png, bmp)">>
    ELSE <<>>

RECURSIVE UploadErrors(_, _, _)
UploadErrors(uploads, maxSize, k) ==
    IF k > Len(uploads) THEN <<>>
    ELSE UploadError(uploads[k], maxSize) \o UploadErrors(uploads, maxSize, k + 1)

ValidationFailed(errors) == IF Len(errors) > 0 THEN "validation failed: " \o Join(errors, "; ") ELSE ""

\* validatePendingUploads: the error text, "" for nil
validatePendingUploads(uploads, maxSize) == ValidationFailed(UploadErrors(uploads, maxSize, 1))

\* the attributes of a media node after its upload
Resolved(attrs, new) == [key \in (DOMAIN attrs \cup DOMAIN new) \ {"_source"} |->
                            IF key \in DOMAIN new THEN new[key] ELSE attrs[key]]

RECURSIVE AttrsAt(_, _)
AttrsAt(node, path) == IF Len(path) = 0 THEN node.attrs ELSE AttrsAt(node.content[path[1]], Tail(path))

RECURSIVE SetAttrs(_, _, _)
SetAttrs(node, path, attrs) ==
    IF Len(path) = 0 THEN [node EXCEPT !.attrs = attrs]
    ELSE [node EXCEPT !.content[path[1]] = SetAttrs(node.content[path[1]], Tail(path), attrs)]

\* p.nodeAttrs[...] = ...; delete(p.nodeAttrs, "_source")
Resolve(adf, path, new) == SetAttrs(adf, path, Resolved(AttrsAt(adf, path), new))

\* checkPendingMedia(adf)
RECURSIVE checkPendingMedia(_)
checkPendingMedia(adf) ==
    \E k \in 1..Len(adf.content) :
        \/ /\ adf.content[k].type = "mediaSingle"
           /\ Len(adf.content[k].content) > 0
           /\ HasPrefix(AttrStr(adf.content[k].content[1].attrs, "id"), PendingPrefix)
        \/ checkPendingMedia(adf.content[k])

(***************************************************************************)
(* The converter as a state machine: a caller holds a Markdown text or an  *)
(* ADF document and converts it back and forth.  texts and docs keep every *)
(* value the conversions produced, oldest first.                           *)
(***************************************************************************)
VARIABLES
    kind,       \* what the caller started from: "md" or "doc"
    texts,      \* the Markdown texts so far
    docs,       \* the ADF documents so far
    pc          \* "text": a text is the newest value, "doc": a document is,
                \* "hung": FromMarkdown was called and never returned

convVars == <<kind, texts, docs, pc>>

\* one call of parseInlineContent, an iteration of its scan loop at a time
VARIABLES
    inlineText, \* the argument text
    remaining,  \* the variable remaining
    result,     \* the variable result
    scanning    \* "call": called, "scan": at the head of the loop, "break": left
                \* by break, "done": returned (result is the value returned)

inlineVars == <<inlineText, remaining, result, scanning>>

\* one call of a write operation
VARIABLES
    call,           \* the operation and its arguments
    wpc,            \* where the operation is; "done": returned, "hung": never returns
    adfDoc,         \* the variable adfDoc, NilNode before it is assigned
    pending,        \* the variable pending of UploadPendingMedia
    current,        \* the issue or page the fetch for the checksums returned
    currentVersion, \* the variable currentVersion
    payloadTitle,   \* payload["title"]
    issue,          \* the fields of the issue on the server
    page,           \* the page on the server
    requests,       \* the requests that write, in the order sent
    ret,            \* what the operation returned
    writes          \* how many times the other client wrote

writeVars ==
    <<call, wpc, adfDoc, pending, current, currentVersion, payloadTitle, issue, page, requests, ret, writes>>

\* the display-name cache of the Confluence package (lruCache)
VARIABLES
    userCache,  \* the fields capacity, items, head and tail of the cache; 0 is the nil pointer
    lruItems,   \* the lruItem objects that are reachable, by address
    accessLog   \* the keys of the get hits and the sets so far, oldest first

cacheVars == <<userCache, lruItems, accessLog>>

\* the request loop of main
VARIABLES
    stdin,      \* the lines not read yet
    stdout      \* the lines written so far

serverVars == <<stdin, stdout>>

vars ==
    <<tz, kind, texts, docs, pc, inlineText, remaining, result, scanning, call, wpc, adfDoc, pending, current,
      currentVersion, payloadTitle, issue, page, requests, ret, writes, userCache, lruItems, accessLog, stdin,
      stdout>>

MaxLines == 2

MaxBlocks == 2

MaxSteps == 3

\* the local time zones the process may run in (minutes east of UTC)
TimeZones == {-300, 0, 330}

\* the lines the input texts are made of
Lines ==
    <<"", "plain", "# h", "## two", "########## x", "#x", "- a", "  - b", "    - c",
      "1. a", "    1. b", "> q", "{user:42} **bold**", "{date:2024-01-01}", "~~~panel type=info", "~~~">>

LinesOf(f, n) == Join([j \in 1..n |-> Lines[f[j]]], "\n")

Texts == UNION {{LinesOf(f, n) : f \in [1..n -> 1..Len(Lines)]} : n \in 1..MaxLines}

Para(s) == Mk("paragraph", EmptyMap, <<TextNode(s, <<>>)>>)

Item(s) == Mk("listItem", EmptyMap, <<Para(s)>>)

\* the blocks the input documents are made of, as a JSON decoder gives them
\* (every number a float64)
Blocks ==
    <<Para("plain"),
      Mk("heading", "level" :> VFloat(1), <<TextNode("h", <<>>)>>),
      Mk("heading", "level" :> VFloat(2), <<TextNode("two", <<>>)>>),
      Mk("heading", "level" :> VFloat(6), <<TextNode("six", <<>>)>>),
      Mk("bulletList", EmptyMap, <<Item("a"), Item("b")>>),
      Mk("orderedList", EmptyMap, <<Item("a"), Item("b")>>),
      Mk("orderedList", "order" :> VFloat(5), <<Item("a"), Item("b")>>),
      Mk("rule", EmptyMap, <<>>),
      Mk("panel", "panelType" :> VStr("info"), <<Para("p")>>),
      Mk("expand", "title" :> VStr("t"), <<Para("e")>>),
      Mk("panel", "panelType" :> VStr("note"), <<Mk("expand", "title" :> VStr("t"), <<Para("e")>>)>>),
      Mk("expand", "title" :> VStr("t"), <<Mk("panel", "panelType" :> VStr("info"), <<Para("p")>>)>>)>>

BlocksOf(f, n) == Mk("doc", "version" :> VFloat(1), [j \in 1..n |-> Blocks[f[j]]])

Documents == UNION {{BlocksOf(f, n) : f \in [1..n -> 1..Len(Blocks)]} : n \in 1..MaxBlocks}

ConvInit ==
    \/ \E t \in Texts : kind = "md" /\ texts = <<t>> /\ docs = <<>> /\ pc = "text"
    \/ \E d \in Documents : kind = "doc" /\ texts = <<>> /\ docs = <<d>> /\ pc = "doc"

ConvIdle == kind = "" /\ texts = <<>> /\ docs = <<>> /\ pc = "idle"

InlineIdle == inlineText = "" /\ remaining = "" /\ result = <<>> /\ scanning = "idle"

WriteIdle ==
    /\ call = [op |-> "", fields |-> <<>>, checksums |-> <<>>, title |-> "", body |-> "", spaceId |-> ""]
    /\ wpc = "idle"
    /\ adfDoc = NilNode
    /\ pending = <<>>
    /\ current = <<>>
    /\ currentVersion = 0
    /\ payloadTitle = ""
    /\ issue = <<>>
    /\ page = <<>>
    /\ requests = <<>>
    /\ ret = [kind |-> "", text |-> "", checksums |-> <<>>]
    /\ writes = 0

CacheIdle ==
    /\ userCache = [capacity |-> 0, items |-> <<>>, head |-> 0, tail |-> 0]
    /\ lruItems = <<>>
    /\ accessLog = <<>>

ServerIdle == stdin = <<>> /\ stdout = <<>>

Parsed(d) == IF d = Diverges THEN pc' = "hung" /\ UNCHANGED docs ELSE pc' = "doc" /\ docs' = Append(docs, d)

\* FromMarkdown(text) on the newest text
Parse ==
    /\ pc = "text"
    /\ Len(texts) + Len(docs) <= MaxSteps
    /\ Parsed(FromMarkdown(texts[Len(texts)]))
    /\ UNCHANGED <<tz, cacheVars, serverVars, kind, texts, inlineVars, writeVars>>

\* ToMarkdown(doc) on the newest document
Render ==
    /\ pc = "doc"
    /\ Len(texts) + Len(docs) <= MaxSteps
    /\ texts' = Append(texts, ToMarkdown(docs[Len(docs)]))
    /\ pc' = "text"
    /\ UNCHANGED <<tz, cacheVars, serverVars, kind, docs, inlineVars, writeVars>>

Init == tz \in TimeZones /\ ConvInit /\ InlineIdle /\ WriteIdle /\ CacheIdle /\ ServerIdle

Next == Parse \/ Render

Spec == Init /\ [][Next]_vars

(***************************************************************************)
(* parseInlineContent step by step                                         *)
(***************************************************************************)
MaxFrags == 3

\* the pieces the inline texts are made of
Frags == <<"{user:42}", " ", "**bold**", "*i*", "x", "[t](u)", ":a:", "__b__">>

FragsOf(f, n) == Concat([j \in 1..n |-> Frags[f[j]]])

InlineTexts == UNION {{FragsOf(f, n) : f \in [1..n -> 1..Len(Frags)]} : n \in 0..MaxFrags}

InlineInit == \E t \in InlineTexts : inlineText = t /\ remaining = "" /\ result = <<>> /\ scanning = "call"

\* lines 812-814 and 1069: the empty text returns at once, any other is scanned
Enter ==
    /\ scanning = "call"
    /\ IF inlineText = ""
       THEN scanning' = "done" /\ UNCHANGED remaining
       ELSE scanning' = "scan" /\ remaining' = inlineText
    /\ UNCHANGED <<tz, cacheVars, serverVars, convVars, inlineText, result, writeVars>>

Scanned(it) ==
    /\ result' = result \o it.nodes
    /\ IF it.matched THEN remaining' = it.rest /\ scanning' = "scan"
       ELSE scanning' = "break" /\ UNCHANGED remaining

\* one iteration of the loop "for len(remaining) > 0"
Scan ==
    /\ scanning = "scan"
    /\ Len(remaining) > 0
    /\ Scanned(InlineIter(remaining))
    /\ UNCHANGED <<tz, cacheVars, serverVars, convVars, inlineText, writeVars>>

\* lines 1112-1116, after the loop ended or was left
Return ==
    /\ scanning = "break" \/ (scanning = "scan" /\ Len(remaining) = 0)
    /\ result' = OrText(inlineText, result)
    /\ scanning' = "done"
    /\ UNCHANGED <<tz, cacheVars, serverVars, convVars, inlineText, remaining, writeVars>>

InitInline == tz = 0 /\ ConvIdle /\ InlineInit /\ WriteIdle /\ CacheIdle /\ ServerIdle

NextInline == Enter \/ Scan \/ Return

SpecInline == InitInline /\ [][NextInline]_vars

(***************************************************************************)
(* The write operations.  A caller that has read the issue and the page    *)
(* (Issue0, Page0) calls one operation; the operation runs a request at a  *)
(* time while another client may write to the same issue or page.          *)
(***************************************************************************)
MaxWrites == 1

OldDoc == Mk("doc", "version" :> VFloat(1), <<Para("old")>>)

TheirDoc == Mk("doc", "version" :> VFloat(1), <<Para("theirs")>>)

\* the issue and the page as the caller read them
Issue0 == [summary |-> "old", description |-> OldDoc, duedate |-> "2024-01-01"]

Page0 == [title |-> "T", body |-> Marshal(OldDoc), version |-> 1]

\* what the other client writes to a field
Theirs(field) == IF field = "description" THEN TheirDoc ELSE IF field = "body" THEN Marshal(TheirDoc) ELSE "theirs"

\* the Markdown bodies a caller passes
Bodies ==
    <<"", "plain", "- a\n    - b",
      "![a](http://h/ok.png)",
      "![k](jira-media:7:c:file)",
      "![](/p/doc.txt)",
      "![e](/p/empty.png)",
      "![b](/p/big.png)",
      "![a](http://h/ok.png)\n![m](/p/missing.png)",
      "![a](http://h/ok.png)\n![t](/p/doc.txt)",
      "~~~mediaGroup\n![g](/p/doc.txt)\n~~~\n![a](http://h/ok.png)",
      "~~~panel type=info\n![a](http://h/ok.png)\n~~~\n![c](/p/g.png)">>

BodySet == {Bodies[j] : j \in 1..Len(Bodies)}

Restrict(f, keys) == [key \in keys |-> f[key]]

Call(op, fields, checksums, title, body, spaceId) ==
    [op |-> op, fields |-> fields, checksums |-> checksums, title |-> title, body |-> body, spaceId |-> spaceId]

NewFields == [summary |-> "new", duedate |-> "2025-01-01"]

\* the field maps of update_issue: new strings, and Markdown for description
IssueUpdates ==
    UNION {{Restrict(NewFields, names)} \cup {("description" :> b) @@ Restrict(NewFields, names) : b \in BodySet} :
               names \in SUBSET DOMAIN NewFields}

Calls ==
    {Call("JiraAddComment", <<>>, <<>>, "", b, "") : b \in BodySet}
        \cup {Call("CreateIssue", <<>>, <<>>, "new", b, "") : b \in BodySet}
        \cup {Call("ConfluenceAddComment", <<>>, <<>>, "", b, "") : b \in BodySet}
        \cup {Call("UpdateIssue", f, Restrict(ComputeFieldsChecksums(Issue0, DOMAIN Issue0), names), "", "", "") :
                  f \in IssueUpdates, names \in SUBSET DOMAIN Issue0}
        \cup {Call("UpdatePage", <<>>, Restrict(ComputePageChecksums(Page0), names), t, b, "") :
                  t \in {"", "T2"}, b \in BodySet, names \in SUBSET {"title", "body", "version"}}
        \cup {Call("CreatePage", <<>>, <<>>, a[1], b, a[2]) :
                  a \in {<<"T2", "S">>, <<"", "S">>, <<"T2", "">>}, b \in BodySet}

\* a request that writes: method and target, the ADF document in its body
\* (NilNode without one), the other values of its body, whether the server
\* applied it, and the issue or page as it was when the request arrived
Req(method, api, what, doc, values, accepted, was) ==
    [method |-> method, api |-> api, what |-> what, doc |-> doc, values |-> values,
     accepted |-> accepted, was |-> was]

Result(outcome, text, checksums) == [kind |-> outcome, text |-> text, checksums |-> checksums]

WriteInit ==
    /\ call \in Calls
    /\ wpc = "start"
    /\ adfDoc = NilNode
    /\ pending = <<>>
    /\ current = <<>>
    /\ currentVersion = 0
    /\ payloadTitle = ""
    /\ issue = Issue0
    /\ page = Page0
    /\ requests = <<>>
    /\ ret = Result("", "", <<>>)
    /\ writes = 0

Finish(outcome, text, checksums) == wpc' = "done" /\ ret' = Result(outcome, text, checksums)

Api == IF call.op \in {"UpdateIssue", "JiraAddComment", "CreateIssue"} THEN "jira" ELSE "confluence"

\* ---- Jira ----------------------------------------------------------------
\* AddComment and CreateIssue: FromMarkdown, then the POST
Posted(what, doc, values, text) ==
    IF doc = Diverges THEN wpc' = "hung" /\ UNCHANGED <<requests, ret>>
    ELSE /\ requests' = Append(requests, Req("POST", Api, what, doc, values, TRUE, <<>>))
         /\ Finish("ok", text, <<>>)

JiraAddComment ==
    /\ call.op = "JiraAddComment"
    /\ wpc = "start"
    /\ Posted("comment", FromMarkdown(call.body), <<>>, "Comment added successfully")
    /\ UNCHANGED <<tz, cacheVars, serverVars, convVars, inlineVars, call, adfDoc, pending, current, currentVersion, payloadTitle, issue, page, writes>>

CreateIssue ==
    /\ call.op = "CreateIssue"
    /\ wpc = "start"
    /\ Posted("issue", IF call.body # "" THEN FromMarkdown(call.body) ELSE NilNode,
              "summary" :> call.title, "Issue created")
    /\ UNCHANGED <<tz, cacheVars, serverVars, convVars, inlineVars, call, adfDoc, pending, current, currentVersion, payloadTitle, issue, page, writes>>

MissingChecksums(fields, checksums) == {fieldName \in DOMAIN fields : fieldName \notin DOMAIN checksums}

\* lines 348-357 of UpdateIssue
UpdateIssueCheck ==
    /\ call.op = "UpdateIssue"
    /\ wpc = "start"
    /\ IF MissingChecksums(call.fields, call.checksums) # {}
       THEN Finish("error",
                   "missing checksums for fields: "
                       \o Join(SortStrings(MissingChecksums(call.fields, call.checksums)), ", "),
                   <<>>)
       ELSE wpc' = "fetch" /\ UNCHANGED ret
    /\ UNCHANGED <<tz, cacheVars, serverVars, convVars, inlineVars, call, adfDoc, pending, current, currentVersion, payloadTitle, issue, page,
                   requests, writes>>

\* a comparison that looks at the summary alone
OnlySummaryMismatched(fields, checksums, currentFields) ==
    {fieldName \in DOMAIN fields \cap {"summary"} :
        ComputeFieldChecksum(GetCanonicalFieldValue(fieldName, currentFields)) # checksums[fieldName]}

\* the fields of the update whose checksum is not the one the caller gave
Mismatched(fields, checksums, currentFields) ==
    {fieldName \in DOMAIN fields :
        ComputeFieldChecksum(GetCanonicalFieldValue(fieldName, currentFields)) # checksums[fieldName]}

Verified(mismatched) ==
    IF mismatched # {}
    THEN Finish("error", "conflict: fields modified since read: " \o Join(SortStrings(mismatched), ", "), <<>>)
    ELSE wpc' = "convert" /\ UNCHANGED ret

\* lines 359-386: the fetch of the issue and the comparison of the checksums
UpdateIssueVerify ==
    /\ call.op = "UpdateIssue"
    /\ wpc = "fetch"
    /\ current' = issue
    /\ Verified(Mismatched(call.fields, call.checksums, issue))
    /\ UNCHANGED <<tz, cacheVars, serverVars, convVars, inlineVars, call, adfDoc, pending, currentVersion, payloadTitle, issue, page,
                   requests, writes>>

Converted(doc) ==
    IF doc = Diverges THEN wpc' = "hung" /\ UNCHANGED adfDoc
    ELSE wpc' = "collect" /\ adfDoc' = doc

\* lines 391-393: a description given as a string is converted
UpdateIssueConvert ==
    /\ call.op = "UpdateIssue"
    /\ wpc = "convert"
    /\ IF "description" \in DOMAIN call.fields
       THEN Converted(FromMarkdown(call.fields["description"]))
       ELSE wpc' = "put" /\ UNCHANGED adfDoc
    /\ UNCHANGED <<tz, cacheVars, serverVars, convVars, inlineVars, call, pending, current, currentVersion, payloadTitle, issue, page,
                   requests, ret, writes>>

\* the fields of the PUT that are not the description
PlainFields(fields) == Restrict(fields, DOMAIN fields \ {"description"})

\* the issue after the server applied the fields of a PUT
Updated(old, fields, doc) ==
    [name \in DOMAIN old |->
        IF name \notin DOMAIN fields THEN old[name]
        ELSE IF name = "description" THEN doc
        ELSE fields[name]]

\* lines 403-415: the PUT, which Jira applies whatever the issue holds by now
UpdateIssuePut ==
    /\ call.op = "UpdateIssue"
    /\ wpc = "put"
    /\ requests' = Append(requests, Req("PUT", "jira", "issue", adfDoc, PlainFields(call.fields), TRUE, issue))
    /\ issue' = Updated(issue, call.fields, adfDoc)
    /\ wpc' = "refetch"
    /\ UNCHANGED <<tz, cacheVars, serverVars, convVars, inlineVars, call, adfDoc, pending, current, currentVersion, payloadTitle, page, ret, writes>>

\* lines 417-448: the fresh checksums of the fields updated
UpdateIssueRefetch ==
    /\ call.op = "UpdateIssue"
    /\ wpc = "refetch"
    /\ Finish("ok", "Issue updated successfully", ComputeFieldsChecksums(issue, DOMAIN call.fields))
    /\ UNCHANGED <<tz, cacheVars, serverVars, convVars, inlineVars, call, adfDoc, pending, current, currentVersion, payloadTitle, issue, page,
                   requests, writes>>

\* ---- UploadPendingMedia (Jira and Confluence) ---------------------------
\* how the caller of UploadPendingMedia returns its error
UploadFailed(err) ==
    IF call.op = "CreatePage" THEN Finish("ok", "Page created but media upload failed: " \o err, <<>>)
    ELSE Finish("error", "failed to upload media: " \o err, <<>>)

\* where the caller goes on after UploadPendingMedia returned nil
AfterUpload == IF call.op = "CreatePage" THEN "version" ELSE "put"

CollectedAs(c) ==
    IF c.err # "" THEN UploadFailed("failed to collect uploads: " \o c.err) /\ UNCHANGED pending
    ELSE IF Len(c.uploads) = 0 THEN wpc' = AfterUpload /\ UNCHANGED <<pending, ret>>
    ELSE wpc' = "validate" /\ pending' = c.uploads /\ UNCHANGED ret

\* phase 1
Collect ==
    /\ wpc = "collect"
    /\ CollectedAs(collectPendingUploads(adfDoc))
    /\ UNCHANGED <<tz, cacheVars, serverVars, convVars, inlineVars, call, adfDoc, current, currentVersion, payloadTitle, issue, page,
                   requests, writes>>

MaxSize == IF Api = "jira" THEN maxJiraAttachmentSize ELSE maxConfluenceAttachmentSize

ValidatedAs(err) == IF err # "" THEN UploadFailed(err) ELSE wpc' = "upload" /\ UNCHANGED ret

\* phase 2
Validate ==
    /\ wpc = "validate"
    /\ ValidatedAs(validatePendingUploads(pending, MaxSize))
    /\ UNCHANGED <<tz, cacheVars, serverVars, convVars, inlineVars, call, adfDoc, pending, current, currentVersion, payloadTitle, issue, page,
                   requests, writes>>

IsUpload(r) == r.what = "attachment"

\* the attachments the server holds after the uploads so far
Attached == Len(SelectSeq(requests, LAMBDA r : IsUpload(r) /\ r.accepted))

\* what the loop of phase 3 writes into the node after an upload
NewAttrs(n) ==
    IF Api = "jira"
    THEN ("id" :> VStr("media-" \o Itoa(n))) @@ ("collection" :> VStr("mediaServiceAttachments"))
    ELSE ("id" :> VStr("file-" \o Itoa(n))) @@ ("collection" :> VStr("contentId-1")) @@ ("type" :> VStr("file"))

UploadedAs(p, n, ok) ==
    /\ requests' = Append(requests, Req("POST", Api, "attachment", NilNode, "filename" :> p.filename, ok, <<>>))
    /\ IF ~ok THEN UploadFailed("upload failed for " \o p.source) /\ UNCHANGED adfDoc
       ELSE /\ adfDoc' = Resolve(adfDoc, p.path, NewAttrs(n))
            /\ wpc' = (IF n = Len(pending) THEN AfterUpload ELSE "upload")
            /\ UNCHANGED ret

\* phase 3, one UploadAttachment at a time; the request may fail
Upload ==
    /\ wpc = "upload"
    /\ \E ok \in BOOLEAN : UploadedAs(pending[Attached + 1], Attached + 1, ok)
    /\ UNCHANGED <<tz, cacheVars, serverVars, convVars, inlineVars, call, pending, current, currentVersion, payloadTitle, issue, page, writes>>

\* ---- Confluence ----------------------------------------------------------
ConfluenceAddComment ==
    /\ call.op = "ConfluenceAddComment"
    /\ wpc = "start"
    /\ Posted("comment", FromMarkdown(call.body), <<>>, "Comment added to page successfully.")
    /\ UNCHANGED <<tz, cacheVars, serverVars, convVars, inlineVars, call, adfDoc, pending, current, currentVersion, payloadTitle, issue, page, writes>>

\* lines 422-425 of UpdatePage: only a call without any checksum is refused
UpdatePageCheck ==
    /\ call.op = "UpdatePage"
    /\ wpc = "start"
    /\ IF DOMAIN call.checksums = {}
       THEN Finish("error", "checksums required for update_page. Use get_page first to obtain checksums", <<>>)
       ELSE wpc' = "fetch" /\ UNCHANGED ret
    /\ UNCHANGED <<tz, cacheVars, serverVars, convVars, inlineVars, call, adfDoc, pending, current, currentVersion, payloadTitle, issue, page,
                   requests, writes>>

\* the loop of ValidatePageChecksums: the fields given whose checksum differs
Conflicts(provided, currentSums) ==
    {field \in DOMAIN provided : field \in DOMAIN currentSums /\ currentSums[field] # provided[field]}

\* the names are listed in the order a map iteration gave them
ValidatedPage(conflicts) ==
    IF conflicts # {}
    THEN \E names \in Orders(conflicts) :
             Finish("error", "conflict: fields modified since read: " \o Join(names, ", "), <<>>)
    ELSE wpc' = "version" /\ UNCHANGED ret

\* lines 427-434: ValidatePageChecksums fetches the page and compares
UpdatePageValidate ==
    /\ call.op = "UpdatePage"
    /\ wpc = "fetch"
    /\ current' = page
    /\ ValidatedPage(Conflicts(call.checksums, ComputePageChecksums(page)))
    /\ UNCHANGED <<tz, cacheVars, serverVars, convVars, inlineVars, call, adfDoc, pending, currentVersion, payloadTitle, issue, page,
                   requests, writes>>

\* lines 437-451: GetCurrentVersion fetches the page again; a title given is
\* put in the payload
UpdatePageVersion ==
    /\ call.op = "UpdatePage"
    /\ wpc = "version"
    /\ currentVersion' = page.version
    /\ IF call.title # "" THEN payloadTitle' = call.title /\ wpc' = "convert"
       ELSE wpc' = "title" /\ UNCHANGED payloadTitle
    /\ UNCHANGED <<tz, cacheVars, serverVars, convVars, inlineVars, call, adfDoc, pending, current, issue, page, requests, ret, writes>>

\* lines 452-464: without a title given, the page is fetched for its title
UpdatePageTitle ==
    /\ call.op = "UpdatePage"
    /\ wpc = "title"
    /\ payloadTitle' = page.title
    /\ wpc' = "convert"
    /\ UNCHANGED <<tz, cacheVars, serverVars, convVars, inlineVars, call, adfDoc, pending, current, currentVersion, issue, page,
                   requests, ret, writes>>

\* lines 467-485
UpdatePageConvert ==
    /\ call.op = "UpdatePage"
    /\ wpc = "convert"
    /\ IF call.body # "" THEN Converted(FromMarkdown(call.body))
       ELSE wpc' = "put" /\ UNCHANGED adfDoc
    /\ UNCHANGED <<tz, cacheVars, serverVars, convVars, inlineVars, call, pending, current, currentVersion, payloadTitle, issue, page,
                   requests, ret, writes>>

\* Confluence applies an update of a page when its version number is the
\* page's version plus one, and refuses it otherwise.
Accepts(old, number) == number = old.version + 1

PagePut(old, newTitle, doc, number) ==
    [title |-> newTitle, body |-> IF doc = NilNode THEN old.body ELSE Marshal(doc), version |-> number]

PutPage(number) ==
    /\ requests' = Append(requests,
                          Req("PUT", "confluence", "page", adfDoc,
                              ("title" :> payloadTitle) @@ ("version" :> Itoa(number)), Accepts(page, number), page))
    /\ page' = IF Accepts(page, number) THEN PagePut(page, payloadTitle, adfDoc, number) ELSE page

\* lines 488-497: the PUT with version currentVersion + 1
UpdatePagePut ==
    /\ call.op = "UpdatePage"
    /\ wpc = "put"
    /\ PutPage(currentVersion + 1)
    /\ IF Accepts(page, currentVersion + 1) THEN wpc' = "refetch" /\ UNCHANGED ret
       ELSE Finish("error", "failed to update page: version conflict", <<>>)
    /\ UNCHANGED <<tz, cacheVars, serverVars, convVars, inlineVars, call, adfDoc, pending, current, currentVersion, payloadTitle, issue, writes>>

\* lines 499-514: the page is fetched for its new checksums
UpdatePageRefetch ==
    /\ call.op = "UpdatePage"
    /\ wpc = "refetch"
    /\ Finish("ok", "Page updated successfully.", ComputePageChecksums(page))
    /\ UNCHANGED <<tz, cacheVars, serverVars, convVars, inlineVars, call, adfDoc, pending, current, currentVersion, payloadTitle, issue, page,
                   requests, writes>>

EmptyDoc == Mk("doc", "version" :> VInt(1), <<>>)

\* lines 538-582: the POST creates the page; with pending media the body is
\* parsed again, to the same document but for the placeholder ids
Created(doc) ==
    IF doc = Diverges THEN wpc' = "hung" /\ UNCHANGED <<adfDoc, payloadTitle, page, requests, ret>>
    ELSE /\ requests' = Append(requests, Req("POST", "confluence", "page", doc, "title" :> call.title, TRUE, <<>>))
         /\ page' = [title |-> call.title, body |-> Marshal(doc), version |-> 1]
         /\ adfDoc' = doc
         /\ payloadTitle' = call.title
         /\ IF checkPendingMedia(doc) THEN wpc' = "collect" /\ UNCHANGED ret
            ELSE Finish("ok", "Page created successfully.", <<>>)

\* lines 519-574 of CreatePage
CreatePagePost ==
    /\ call.op = "CreatePage"
    /\ wpc = "start"
    /\ IF call.spaceId = "" THEN Finish("error", "spaceId is required", <<>>) /\ UNCHANGED <<adfDoc, payloadTitle, page, requests>>
       ELSE IF call.title = "" THEN Finish("error", "title is required", <<>>) /\ UNCHANGED <<adfDoc, payloadTitle, page, requests>>
       ELSE Created(IF call.body # "" THEN FromMarkdown(call.body) ELSE EmptyDoc)
    /\ UNCHANGED <<tz, cacheVars, serverVars, convVars, inlineVars, call, pending, current, currentVersion, issue, writes>>

\* lines 592-596
CreatePageVersion ==
    /\ call.op = "CreatePage"
    /\ wpc = "version"
    /\ currentVersion' = page.version
    /\ wpc' = "put"
    /\ UNCHANGED <<tz, cacheVars, serverVars, convVars, inlineVars, call, adfDoc, pending, current, payloadTitle, issue, page, requests, ret, writes>>

\* lines 598-613
CreatePagePut ==
    /\ call.op = "CreatePage"
    /\ wpc = "put"
    /\ PutPage(currentVersion + 1)
    /\ Finish("ok",
              IF Accepts(page, currentVersion + 1) THEN "Page created successfully."
              ELSE "Page created but media update failed: version conflict",
              <<>>)
    /\ UNCHANGED <<tz, cacheVars, serverVars, convVars, inlineVars, call, adfDoc, pending, current, currentVersion, payloadTitle, issue, writes>>

\* ---- the other client -----------------------------------------------------
Running == wpc \notin {"done", "hung"}

\* another client updates a field of the issue
OtherWriteIssue ==
    /\ call.op = "UpdateIssue"
    /\ Running
    /\ writes < MaxWrites
    /\ \E field \in {"summary", "description"} : issue' = [issue EXCEPT ![field] = Theirs(field)]
    /\ writes' = writes + 1
    /\ UNCHANGED <<tz, cacheVars, serverVars, convVars, inlineVars, call, wpc, adfDoc, pending, current, currentVersion, payloadTitle, page,
                   requests, ret>>

\* another client updates the page, which gives it its next version
OtherWritePage ==
    /\ call.op = "UpdatePage" \/ (call.op = "CreatePage" /\ wpc # "start")
    /\ Running
    /\ writes < MaxWrites
    /\ \E field \in {"title", "body"} : page' = [page EXCEPT ![field] = Theirs(field), !.version = @ + 1]
    /\ writes' = writes + 1
    /\ UNCHANGED <<tz, cacheVars, serverVars, convVars, inlineVars, call, wpc, adfDoc, pending, current, currentVersion, payloadTitle, issue,
                   requests, ret>>

InitWrite == tz = 0 /\ ConvIdle /\ InlineIdle /\ WriteInit /\ CacheIdle /\ ServerIdle

NextWrite ==
    \/ JiraAddComment
    \/ CreateIssue
    \/ UpdateIssueCheck
    \/ UpdateIssueVerify
    \/ UpdateIssueConvert
    \/ UpdateIssuePut
    \/ UpdateIssueRefetch
    \/ Collect
    \/ Validate
    \/ Upload
    \/ ConfluenceAddComment
    \/ UpdatePageCheck
    \/ UpdatePageValidate
    \/ UpdatePageVersion
    \/ UpdatePageTitle
    \/ UpdatePageConvert
    \/ UpdatePagePut
    \/ UpdatePageRefetch
    \/ CreatePagePost
    \/ CreatePageVersion
    \/ CreatePagePut
    \/ OtherWriteIssue
    \/ OtherWritePage

SpecWrite == InitWrite /\ [][NextWrite]_vars

(***************************************************************************)
(* Properties of the converter                                             *)
(***************************************************************************)
FirstLine(text) == Split(text, "\n")[1]

\* C1: FromMarkdown terminates on every input text; no parser loop repeats an
\* iteration without advancing, whatever the indentation of the list-marker
\* line that follows a list item.
C1_Terminates == pc # "hung"

\* C3: rendering is idempotent through a parse: for a document d of supported
\* nodes, ToMarkdown(FromMarkdown(ToMarkdown(d))) = ToMarkdown(d).
C3_RenderIdempotent == kind = "doc" /\ Len(texts) >= 2 => texts[2] = texts[1]

IsHeadingLine(line, n) == n >= 1 /\ Ch(line, n + 1) = " " /\ TrimSpace(Drop(line, n)) # ""

LevelIn(node) == node.type = "heading" => node.attrs["level"].n \in 1..6

FirstIsHeading(content, level) ==
    /\ Len(content) >= 1
    /\ content[1].type = "heading"
    /\ content[1].attrs["level"].n = level

\* C9: a line of seven or more '#', a space and text parses to a heading of
\* level 6, and every heading the parser produces has a level in 1..6.
C9_HeadingClamped ==
    kind = "md" /\ Len(docs) >= 1 =>
        /\ \A j \in 1..Len(docs[1].content) : LevelIn(docs[1].content[j])
        /\ HashRun(FirstLine(texts[1])) >= 7 /\ IsHeadingLine(FirstLine(texts[1]), HashRun(FirstLine(texts[1])))
               => FirstIsHeading(docs[1].content, 6)

IsBrokenHeading(line) ==
    /\ HashRun(line) >= 1
    /\ Len(line) > HashRun(line)
    /\ Ch(line, HashRun(line) + 1) \notin WS

\* C10: a line that starts with '#' with no space after the run of hashes
\* becomes a paragraph holding the text of the line.
C10_BrokenHeadingIsParagraph ==
    kind = "md" /\ Len(docs) >= 1 /\ IsBrokenHeading(FirstLine(texts[1])) =>
        /\ Len(docs[1].content) >= 1
        /\ docs[1].content[1] = Para(FirstLine(texts[1]))

(***************************************************************************)
(* Properties of parseInlineContent                                        *)
(***************************************************************************)
\* the matches of all the patterns in a text, each with its place in the list
MatchOf(p, loc) == [pattern |-> p, start |-> loc[1], stop |-> loc[2]]

Matches(text) ==
    {m \in {MatchOf(p, FindStringIndex(PatternNames[p], text)) : p \in 1..Len(PatternNames)} : m.start # 0}

\* the match that starts earliest, the one first in the list among equals
Winner(M) ==
    CHOOSE m \in M : \A n \in M : m.start < n.start \/ (m.start = n.start /\ m.pattern <= n.pattern)

TypedNode(text, m) == Handler(PatternNames[m.pattern], SubSeq(text, m.start, m.stop - 1))

TakesWinner(m) ==
    /\ result' = result \o Before(remaining, m.start) \o <<TypedNode(remaining, m)>>
    /\ remaining' = Drop(remaining, m.stop - 1)
    /\ scanning' = "scan"

EarliestWinsStep ==
    scanning = "scan" /\ Len(remaining) > 0 =>
        IF Matches(remaining) = {}
        THEN result' = Append(result, TextNode(remaining, <<>>)) /\ scanning' = "break"
        ELSE TakesWinner(Winner(Matches(remaining)))

MentionSpaceBold ==
    <<Mk("mention", ("id" :> VStr("42")) @@ ("text" :> VStr("@42")), <<>>),
      TextNode(" ", <<>>),
      TextNode("bold", <<Mark("strong", EmptyMap)>>)>>

\* C8: each iteration of the scan takes, among the patterns that match in the
\* remaining text, the match that starts earliest (the first in the list among
\* equal starts): the text before it becomes one text node, the match its
\* typed node, and the scan resumes right after it; a remainder without a
\* match becomes one text node.  "{user:42} **bold**" gives a mention, the
\* text " " and the strong text "bold".
C8_EarliestMatchWins ==
    /\ [][EarliestWinsStep]_vars
    /\ [](inlineText = "{user:42} **bold**" /\ scanning = "done" => result = MentionSpaceBold)

\* the example of C8 has been scanned to its end
C8_Witness == inlineText = "{user:42} **bold**" /\ scanning = "done" /\ result = MentionSpaceBold

(***************************************************************************)
(* Properties of the write operations                                      *)
(***************************************************************************)
\* a media node that still is a placeholder for a file to upload
IsPendingNode(node) ==
    /\ node.type = "media"
    /\ HasPrefix(AttrStr(node.attrs, "id"), PendingPrefix) \/ "_source" \in DOMAIN node.attrs

RECURSIVE HasPendingNode(_)
HasPendingNode(node) == IsPendingNode(node) \/ \E k \in 1..Len(node.content) : HasPendingNode(node.content[k])

\* C2: no request body a write operation sends holds a media node whose id
\* is a __PENDING_UPLOAD_ placeholder or that carries a _source attribute.
C2_NoPendingSerialized == \A k \in 1..Len(requests) : ~HasPendingNode(requests[k].doc)

IsUpdate == call.op \in {"UpdateIssue", "UpdatePage"}

\* the checksum of a field of the issue or page r
ChecksumIn(r, field) ==
    IF call.op = "UpdateIssue" THEN ComputeFieldChecksum(GetCanonicalFieldValue(field, r))
    ELSE ComputePageChecksums(r)[field]

\* the PUT r gives the field a value other than the one it had
Replaces(r, field) ==
    CASE r.api = "jira" -> field \in DOMAIN call.fields
      [] field = "title" -> r.values["title"] # r.was.title
      [] field = "body" -> r.doc # NilNode
      [] OTHER -> FALSE

Preserves(r) ==
    \A field \in DOMAIN call.checksums :
        Replaces(r, field) => ChecksumIn(r.was, field) = call.checksums[field]

\* C4: an update never replaces a value of a checksummed field that another
\* client wrote after the caller's read: every PUT the server applies finds
\* the fields it replaces as the caller read them.
C4_NoLostUpdate ==
    IsUpdate => \A k \in 1..Len(requests) :
                    requests[k].method = "PUT" /\ requests[k].accepted => Preserves(requests[k])

RECURSIVE PendingSources(_)
PendingSources(node) ==
    (IF IsPendingNode(node) THEN {AttrStr(node.attrs, "_source")} ELSE {})
        \cup UNION {PendingSources(node.content[k]) : k \in 1..Len(node.content)}

\* the Markdown the operation converts
CallBody ==
    IF call.op # "UpdateIssue" THEN call.body
    ELSE IF "description" \in DOMAIN call.fields THEN call.fields["description"]
    ELSE ""

UploadsSent == \E k \in 1..Len(requests) : IsUpload(requests[k])

\* C5: an upload request is sent only when every pending media file of the
\* document was collected and passed validation; after a failed collection
\* or validation no upload was sent.
C5_ValidateThenUpload ==
    /\ UploadsSent =>
           /\ \A source \in PendingSources(FromMarkdown(CallBody)) :
                  \E j \in 1..Len(pending) : pending[j].source = source
           /\ \A j \in 1..Len(pending) : UploadError(pending[j], MaxSize) = <<>>
    /\ Contains(ret.text, "failed to collect uploads") \/ Contains(ret.text, "validation failed") => ~UploadsSent

Unchecked == {name \in DOMAIN call.fields : name \notin DOMAIN call.checksums}

Stale ==
    {name \in DOMAIN call.fields \cap DOMAIN call.checksums :
        Sha256Hex8(GetCanonicalFieldValue(name, current)) # call.checksums[name]}

Names(S) == Join(SortStrings(S), ", ")

Changed(p, q) == p.title # q.title \/ p.body # q.body \/ p.version # q.version

\* C7: update_page is refused without a write when the checksums of title,
\* body and version are not all given, and it returns a conflict without a
\* write when the page fetched differs from the one read in any of the three.
C7_AllThreeChecksums ==
    call.op = "UpdatePage" =>
        /\ {"title", "body", "version"} \ DOMAIN call.checksums # {} =>
               /\ requests = <<>>
               /\ wpc = "done" => ret.kind = "error"
        /\ DOMAIN call.checksums # {} /\ wpc \notin {"start", "fetch"} /\ Changed(current, Page0) =>
               /\ requests = <<>>
               /\ wpc = "done" => HasPrefix(ret.text, "conflict: fields modified since read: ")

(***************************************************************************)
(* Mark composition (applyMarks)                                           *)
(***************************************************************************)
MaxMarks == 3

\* one mark of each kind
MarkKinds ==
    <<Mark("code", EmptyMap),
      Mark("link", "href" :> VStr("u")),
      Mark("em", EmptyMap),
      Mark("strong", EmptyMap),
      Mark("strike", EmptyMap),
      Mark("underline", EmptyMap),
      Mark("textColor", "color" :> VStr("#f00")),
      Mark("backgroundColor", "color" :> VStr("#ff0")),
      Mark("subsup", "type" :> VStr("sub"))>>

\* the lists of at most MaxMarks marks, no kind twice, in every order
MarkLists ==
    UNION {{[j \in 1..n |-> MarkKinds[f[j]]] :
               f \in {g \in [1..n -> 1..Len(MarkKinds)] : \A a, b \in 1..n : a # b => g[a] # g[b]}} :
           n \in 0..MaxMarks}

MarkedDoc(marks) == Mk("doc", "version" :> VFloat(1), <<Mk("paragraph", EmptyMap, <<TextNode("text", marks)>>)>>)

InitMarks ==
    /\ tz = 0
    /\ \E marks \in MarkLists : kind = "doc" /\ texts = <<>> /\ docs = <<MarkedDoc(marks)>> /\ pc = "doc"
    /\ InlineIdle
    /\ WriteIdle
    /\ CacheIdle
    /\ ServerIdle

SpecMarks == InitMarks /\ [][Next]_vars

\* the marks of the text node of the document given
MarksIn(doc) == doc.content[1].content[1].marks

\* the kinds (as places in MarkKinds) that occur in a list of marks
KindsIn(marks) == {k \in 1..Len(MarkKinds) : \E j \in 1..Len(marks) : marks[j].type = MarkKinds[k].type}

\* the fixed composition: code innermost, then link, em, strong, strike,
\* underline, text colour, background colour and sub/sup outermost
FixedWrap(k, r) ==
    CASE k = 1 -> BT \o r \o BT
      [] k = 2 -> "[" \o r \o "](u)"
      [] k = 3 -> "*" \o r \o "*"
      [] k = 4 -> "**" \o r \o "**"
      [] k = 5 -> "~~" \o r \o "~~"
      [] k = 6 -> "<u>" \o r \o "</u>"
      [] k = 7 -> "{color:#f00}" \o r \o "{color}"
      [] k = 8 -> "<mark style=\"background:#ff0\">" \o r \o "</mark>"
      [] k = 9 -> "<sub>" \o r \o "</sub>"

RECURSIVE FixedFrom(_, _, _)
FixedFrom(K, k, r) ==
    IF k > Len(MarkKinds) THEN r
    ELSE FixedFrom(K, k + 1, IF k \in K THEN FixedWrap(k, r) ELSE r)

\* C11: the string applyMarks gives depends on the set of marks only, not on
\* their order in the list: it is the text wrapped innermost-first as code,
\* link, em, strong, strike, underline, text colour, background colour,
\* sub/sup; strong and em together give ***text*** in either order.
C11_MarksOrderFree ==
    Len(texts) >= 1 =>
        /\ texts[1] = FixedFrom(KindsIn(MarksIn(docs[1])), 1, "text")
        /\ KindsIn(MarksIn(docs[1])) = {3, 4} => texts[1] = "***text***"

\* strong listed before em has been rendered
C11_Witness ==
    /\ Len(texts) >= 1
    /\ Len(MarksIn(docs[1])) = 2
    /\ MarksIn(docs[1])[1].type = "strong"
    /\ MarksIn(docs[1])[2].type = "em"
    /\ texts[1] = "***text***"

(***************************************************************************)
(* Whitespace of the rendered text (NormalizeWhitespace)                   *)
(***************************************************************************)
MaxTextLines == 4

\* the lines the text of a text node is made of
TextLines == <<"a", "", " ", "\t", "b ">>

TextLinesOf(f, n) == Join([j \in 1..n |-> TextLines[f[j]]], "\n")

NodeTexts == UNION {{TextLinesOf(f, n) : f \in [1..n -> 1..Len(TextLines)]} : n \in 1..MaxTextLines}

InitSpace ==
    /\ tz = 0
    /\ \E t \in NodeTexts :
           kind = "doc" /\ texts = <<>> /\ pc = "doc"
               /\ docs = <<Mk("doc", "version" :> VFloat(1), <<Para(t)>>)>>
    /\ InlineIdle
    /\ WriteIdle
    /\ CacheIdle
    /\ ServerIdle

SpecSpace == InitSpace /\ [][Next]_vars

EndsInBlank(line) == HasSuffix(line, " ") \/ HasSuffix(line, "\t")

NoLineEndsInBlank(lines) == \A j \in 1..Len(lines) : ~EndsInBlank(lines[j])

IsNormalized(s) ==
    /\ ~Contains(s, "\n\n\n")
    /\ NoLineEndsInBlank(Split(s, "\n"))
    /\ TrimSpace(s) = s

\* C12: every string ToMarkdown returns is whitespace-normalized: no run of
\* three or more newlines, no line that ends in a space or tab, no leading
\* or trailing whitespace.
C12_OutputNormalized == kind = "doc" => \A j \in 1..Len(texts) : IsNormalized(texts[j])

(***************************************************************************)
(* Plain paragraphs                                                        *)
(***************************************************************************)
MaxPlainLines == 3

\* lines without a character that starts block or inline syntax
PlainLines == <<"plain", "two words", "  lead", "trail  ", "a\tb ", "x.">>

PlainOf(f, n) == Join([j \in 1..n |-> PlainLines[f[j]]], "\n")

PlainTexts == UNION {{PlainOf(f, n) : f \in [1..n -> 1..Len(PlainLines)]} : n \in 1..MaxPlainLines}

InitPlain ==
    /\ tz = 0
    /\ \E t \in PlainTexts : kind = "md" /\ texts = <<t>> /\ docs = <<>> /\ pc = "text"
    /\ InlineIdle
    /\ WriteIdle
    /\ CacheIdle
    /\ ServerIdle

SpecPlain == InitPlain /\ [][Next]_vars

\* C13: a plain single-paragraph text round-trips up to whitespace:
\* ToMarkdown(FromMarkdown(s)) = NormalizeWhitespace(s), and the document is
\* one paragraph holding s as one text node.
C13_PlainRoundTrip ==
    /\ Len(docs) >= 1 => docs[1].content = <<Para(texts[1])>>
    /\ Len(texts) >= 2 => texts[2] = NormalizeWhitespace(texts[1])

\* a text of two lines with blanks at their ends has come back normalized
C13_Witness == Len(texts) >= 2 /\ texts[1] = "  lead\ntrail  " /\ texts[2] = "lead\ntrail"

(***************************************************************************)
(* Nested bullet lists                                                     *)
(***************************************************************************)
MaxItems == 5

\* the depths of the items of a list, line by line: the first item at depth
\* 0, every other at most one level deeper than the item before it
DepthSeqs(n) == {f \in [1..n -> 0..(n - 1)] : f[1] = 0 /\ \A k \in 2..n : f[k] <= f[k - 1] + 1}

ItemLine(d, k) == Repeat("  ", d) \o "- Item " \o Itoa(k)

BulletText(f, n) == Join([k \in 1..n |-> ItemLine(f[k], k)], "\n")

BulletTexts == UNION {{BulletText(f, n) : f \in DepthSeqs(n)} : n \in 1..MaxItems}

InitBullets ==
    /\ tz = 0
    /\ \E t \in BulletTexts : kind = "md" /\ texts = <<t>> /\ docs = <<>> /\ pc = "text"
    /\ InlineIdle
    /\ WriteIdle
    /\ CacheIdle
    /\ ServerIdle

SpecBullets == InitBullets /\ [][Next]_vars

\* the items of a parsed list in document order, each with its depth
RECURSIVE FlatList(_, _, _)
RECURSIVE FlatNested(_, _, _)
FlatNested(children, k, d) ==
    IF k > Len(children) THEN <<>>
    ELSE FlatList(children[k].content, 1, d + 1) \o FlatNested(children, k + 1, d)

FlatList(items, j, d) ==
    IF j > Len(items) THEN <<>>
    ELSE <<[depth |-> d, text |-> renderContent(items[j].content[1])]>>
             \o FlatNested(items[j].content, 2, d)
             \o FlatList(items, j + 1, d)

\* the items the lines of a text name, each with its depth
LinesAsItems(lines) ==
    [k \in 1..Len(lines) |->
        [depth |-> GetIndentLevel(lines[k]), text |-> Drop(LeftTrim(lines[k]), 2)]]

\* every item is a paragraph followed by at most one nested bullet list
RECURSIVE WellNested(_)
WellNested(list) ==
    /\ list.type = "bulletList"
    /\ \A j \in 1..Len(list.content) :
           /\ list.content[j].type = "listItem"
           /\ Len(list.content[j].content) \in 1..2
           /\ list.content[j].content[1].type = "paragraph"
           /\ Len(list.content[j].content) = 2 => WellNested(list.content[j].content[2])

\* C14: a bullet list whose nested items are each one level (2 spaces) deeper
\* than their parent parses to one list with the same items at the same
\* depths, each nested list attached to the item it followed, and renders
\* back to the same lines.
C14_NestedBulletsRoundTrip ==
    /\ Len(docs) >= 1 =>
           /\ Len(docs[1].content) = 1
           /\ WellNested(docs[1].content[1])
           /\ FlatList(docs[1].content[1].content, 1, 0) = LinesAsItems(Split(texts[1], "\n"))
    /\ Len(texts) >= 2 => texts[2] = texts[1]

\* a list that goes two levels down and comes back has made the round trip
C14_Witness ==
    /\ Len(texts) >= 2
    /\ texts[1] = "- Item 1\n  - Item 2\n    - Item 3\n  - Item 4\n- Item 5"
    /\ texts[2] = texts[1]

(***************************************************************************)
(* Tables                                                                  *)
(***************************************************************************)
MaxRows == 3

Cell(cellType, s) == Mk(cellType, EmptyMap, <<Para(s)>>)

\* the rows the input tables are made of: header cells, data cells or both,
\* one or two cells wide
RowKinds ==
    <<Mk("tableRow", EmptyMap, <<Cell("tableHeader", "h")>>),
      Mk("tableRow", EmptyMap, <<Cell("tableHeader", "h"), Cell("tableHeader", "k")>>),
      Mk("tableRow", EmptyMap, <<Cell("tableCell", "c")>>),
      Mk("tableRow", EmptyMap, <<Cell("tableCell", "c"), Cell("tableCell", "d")>>),
      Mk("tableRow", EmptyMap, <<Cell("tableHeader", "h"), Cell("tableCell", "d")>>),
      Mk("tableRow", EmptyMap, <<Cell("tableCell", "c"), Cell("tableHeader", "k")>>)>>

TableWith(f, n) == Mk("table", EmptyMap, [j \in 1..n |-> RowKinds[f[j]]])

Tables == UNION {{TableWith(f, n) : f \in [1..n -> 1..Len(RowKinds)]} : n \in 1..MaxRows}

InitTables ==
    /\ tz = 0
    /\ \E t \in Tables :
           kind = "doc" /\ texts = <<>> /\ pc = "doc" /\ docs = <<Mk("doc", "version" :> VFloat(1), <<t>>)>>
    /\ InlineIdle
    /\ WriteIdle
    /\ CacheIdle
    /\ ServerIdle

SpecTables == InitTables /\ [][Next]_vars

\* a line of the rendering that is a row of --- cells
IsSeparatorLine(line) == \E n \in 1..2 : line = Separator(n)

SeparatorLines(lines) == {j \in 1..Len(lines) : IsSeparatorLine(lines[j])}

\* the rows of the table that hold a header cell
HeaderRows(table) == {i \in 1..Len(table.content) : HasHeader(table.content[i])}

\* the row the separator belongs after: the first with a header cell, the
\* first row when there is none
SeparatorRow(table) == IF HeaderRows(table) = {} THEN 1 ELSE Min(HeaderRows(table))

\* C15: the rendering of a non-empty table holds exactly one separator row,
\* right after the header row (after the first row when no row holds a
\* header cell), however many rows hold header cells.
C15_OneSeparator ==
    kind = "doc" /\ Len(texts) >= 1 =>
        SeparatorLines(Split(texts[1], "\n")) = {SeparatorRow(docs[1].content[1]) + 1}

MaxTableLines == 3

\* the lines the input tables are made of
TableRowLines == <<"| h | k |", "| --- | --- |", "| a---b | c |", "| c | d |", "| x |">>

TableTextOf(f, n) == Join([j \in 1..n |-> TableRowLines[f[j]]], "\n")

TableTexts == UNION {{TableTextOf(f, n) : f \in [1..n -> 1..Len(TableRowLines)]} : n \in 1..MaxTableLines}

InitTableTexts ==
    /\ tz = 0
    /\ \E t \in TableTexts : kind = "md" /\ texts = <<t>> /\ docs = <<>> /\ pc = "text"
    /\ InlineIdle
    /\ WriteIdle
    /\ CacheIdle
    /\ ServerIdle

SpecTableTexts == InitTableTexts /\ [][Next]_vars

IsDashOnly(cell) == Len(cell) > 0 /\ \A j \in 1..Len(cell) : Ch(cell, j) = "-"

\* a row all of whose cells are dash-only: the separator convention
IsSeparatorRow(line) == \A j \in 1..Len(parseTableRow(line)) : IsDashOnly(parseTableRow(line)[j])

KeptRows(lines) == SelectSeq(lines, LAMBDA line : ~IsSeparatorRow(line))

RowsAsCells(kept) ==
    [j \in 1..Len(kept) |-> TableRow(kept[j], IF j = 1 THEN "tableHeader" ELSE "tableCell")]

\* C16: parseTable drops exactly the rows whose cells are all dash-only and
\* keeps every other row in order, the first kept row as tableHeader cells
\* and the later ones as tableCell cells; a data row with "---" inside a
\* cell is kept.
C16_OnlySeparatorRowsDropped ==
    kind = "md" /\ Len(docs) >= 1 /\ KeptRows(Split(texts[1], "\n")) # <<>> =>
        /\ Len(docs[1].content) = 1
        /\ docs[1].content[1].type = "table"
        /\ docs[1].content[1].content = RowsAsCells(KeptRows(Split(texts[1], "\n")))

(***************************************************************************)
(* Media sources (parseMediaFromImage)                                     *)
(***************************************************************************)
MediaAlts == <<"cat", "", "a b">>

MediaSources ==
    <<"jira-media:id1:col:file", "jira-media:9f8e-01:contentId-77:image", "jira-media:id1:col:file:x",
      "jira-media:::", "jira-media:x::file", "jira-media:id1:col", "jira-media:", "jira-media",
      "JIRA-MEDIA:id1:col:file", "a:b:c:d", "https://x/cat.png", "./img/a.png", "/tmp/a b.png">>

ImageText(alt, src) == "![" \o alt \o "](" \o src \o ")"

\* an image on a line of its own, in a mediaSingle fence, in a mediaGroup fence
MediaTexts(alt, src) ==
    <<ImageText(alt, src),
      "~~~mediaSingle layout=center\n" \o ImageText(alt, src) \o "\n~~~",
      "~~~mediaGroup\n" \o ImageText(alt, src) \o "\n~~~">>

InitMedia ==
    /\ tz = 0
    /\ \E a \in 1..Len(MediaAlts), s \in 1..Len(MediaSources), c \in 1..3 :
           kind = "md" /\ texts = <<MediaTexts(MediaAlts[a], MediaSources[s])[c]>> /\ docs = <<>> /\ pc = "text"
    /\ InlineIdle
    /\ WriteIdle
    /\ CacheIdle
    /\ ServerIdle

SpecMedia == InitMedia /\ [][Next]_vars

SourceOf(text) == ImageFind(text, 1).src

HasMedia(doc) ==
    /\ Len(doc.content) = 1
    /\ doc.content[1].type \in {"mediaSingle", "mediaGroup"}
    /\ Len(doc.content[1].content) = 1
    /\ doc.content[1].content[1].type = "media"

MediaIn(doc) == doc.content[1].content[1]

ReservedParts(src) == Split(TrimPrefix(src, "jira-media:"), ":")

IsReservedSource(src) == HasPrefix(src, "jira-media:") /\ Len(ReservedParts(src)) >= 3

IsPlaceholder(id) ==
    HasPrefix(id, "__PENDING_UPLOAD_") /\ HasSuffix(id, "__") /\ Len(id) > Len("__PENDING_UPLOAD___")

IsPending(m) == "_source" \in DOMAIN m.attrs

MediaClassified(src, m) ==
    IF IsReservedSource(src)
    THEN /\ ~IsPending(m)
         /\ AttrStr(m.attrs, "id") = ReservedParts(src)[1]
         /\ AttrStr(m.attrs, "collection") = ReservedParts(src)[2]
         /\ AttrStr(m.attrs, "type") = Join(Drop(ReservedParts(src), 2), ":")
    ELSE /\ IsPending(m)
         /\ AttrStr(m.attrs, "_source") = src
         /\ IsPlaceholder(AttrStr(m.attrs, "id"))

\* every parsed image source is classified as the claim says
SourcesClassified ==
    kind = "md" =>
        \A j \in 1..Len(docs) :
            ImageFind(texts[j], 1).stop # 0 =>
                HasMedia(docs[j]) /\ MediaClassified(SourceOf(texts[j]), MediaIn(docs[j]))

\* C17: a source jira-media:ID:COLLECTION:TYPE yields a resolved media node
\* with exactly that id, collection and type and no _source; every other
\* source yields a pending node whose _source is the source and whose id is
\* a non-empty __PENDING_UPLOAD_...__ placeholder; the id of a pending node
\* never equals the id of a resolved node.
C17_MediaSourceClassified ==
    /\ SourcesClassified
    /\ kind = "md" =>
           \A i, j \in 1..Len(docs) :
               HasMedia(docs[i]) /\ HasMedia(docs[j]) /\ IsPending(MediaIn(docs[i])) /\ ~IsPending(MediaIn(docs[j]))
                   => AttrStr(MediaIn(docs[i]).attrs, "id") # AttrStr(MediaIn(docs[j]).attrs, "id")

(***************************************************************************)
(* Dates (ParseTimestamp, FormatTimestamp)                                 *)
(***************************************************************************)
DateYears == {1969, 1970, 2000, 2023, 2024}

DateMonths == {1, 2, 6, 12}

\* the first, an inner and the last day of the month
DateDays(y, m) == {1, 15, DaysIn(y, m)}

ISODates == UNION {UNION {{FormatDate([y |-> y, m |-> m, d |-> d]) : d \in DateDays(y, m)} : m \in DateMonths} : y \in DateYears}

InitDates ==
    /\ tz \in TimeZones
    /\ \E d \in ISODates : kind = "md" /\ texts = <<"{date:" \o d \o "}">> /\ docs = <<>> /\ pc = "text"
    /\ InlineIdle
    /\ WriteIdle
    /\ CacheIdle
    /\ ServerIdle

SpecDates == InitDates /\ [][Next]_vars

\* the date written in the text "{date:YYYY-MM-DD}"
DateWritten(text) == SubSeq(text, 7, 16)

HasDate(doc) ==
    /\ Len(doc.content) = 1
    /\ Len(doc.content[1].content) = 1
    /\ doc.content[1].content[1].type = "date"

TimestampIn(doc) == AttrStr(doc.content[1].content[1].attrs, "timestamp")

\* C18: FormatTimestamp(ParseTimestamp(d)) = d for every valid ISO date d,
\* in every time zone of the process.
C18_TimestampRoundTrip ==
    kind = "md" /\ Len(docs) >= 1 /\ IsISODate(DateWritten(texts[1])) =>
        /\ HasDate(docs[1])
        /\ TimestampIn(docs[1]) = ParseTimestamp(DateWritten(texts[1]))
        /\ FormatTimestamp(TimestampIn(docs[1])) = DateWritten(texts[1])
        /\ Len(texts) >= 2 => texts[2] = texts[1]

(***************************************************************************)
(* Ordered lists (parseOrderedList, renderOrderedList)                     *)
(***************************************************************************)
MaxOrdered == 3

FirstMarkers == {0, 1, 2, 5, 10}

\* a later marker: 0 stands for the consecutive number, another value is written as is
LaterMarkers == {0, 1, 9}

OrderedItemTexts == <<"a", "b", "c">>

MarkerAt(first, later, j) == IF j = 1 THEN first ELSE IF later[j] = 0 THEN first + j - 1 ELSE later[j]

OrderedListText(first, later, n) ==
    Join([j \in 1..n |-> Itoa(MarkerAt(first, later, j)) \o ". " \o OrderedItemTexts[j]], "\n")

OrderedTexts ==
    UNION {UNION {{OrderedListText(first, later, n) : later \in [1..n -> LaterMarkers]} : first \in FirstMarkers}
           : n \in 1..MaxOrdered}

InitOrdered ==
    /\ tz = 0
    /\ \E t \in OrderedTexts : kind = "md" /\ texts = <<t>> /\ docs = <<>> /\ pc = "text"
    /\ InlineIdle
    /\ WriteIdle
    /\ CacheIdle
    /\ ServerIdle

SpecOrdered == InitOrdered /\ [][Next]_vars

\* the number written before the first dot of the text
FirstMarker(text) == Atoi(SubSeq(text, 1, SpanIn(text, 1, Digits) - 1))

ItemTextsOf(text) == [j \in 1..Len(Split(text, "\n")) |-> Drop(Split(text, "\n")[j], Index(Split(text, "\n")[j], ". ") + 1)]

HasOrdered(doc) == Len(doc.content) = 1 /\ doc.content[1].type = "orderedList"

\* the startOrder of the list of a document: the "order" attribute, 1 without it
StartOrderOf(doc) == IF "order" \in DOMAIN doc.content[1].attrs THEN doc.content[1].attrs["order"].n ELSE 1

NumberedFrom(first, items) == Join([j \in 1..Len(items) |-> Itoa(first + j - 1) \o ". " \o items[j]], "\n")

\* the parse half: the first marker becomes startOrder
StartOrderParsed ==
    kind = "md" =>
        \A j \in 1..Len(docs) :
            /\ HasOrdered(docs[j])
            /\ StartOrderOf(docs[j]) = FirstMarker(texts[j])
            /\ Len(docs[j].content[1].content) = Len(Split(texts[j], "\n"))

\* C19: an ordered list whose first marker is N parses to startOrder N
\* (later markers ignored) and the parsed list renders numbered N, N+1,
\* N+2, ...: ToMarkdown(FromMarkdown("5. a\n6. b")) = "5. a\n6. b".
C19_OrderedStartKept ==
    /\ StartOrderParsed
    /\ kind = "md" /\ Len(texts) >= 2 =>
           texts[2] = NumberedFrom(FirstMarker(texts[1]), ItemTextsOf(texts[1]))

(***************************************************************************)
(* EscapeMarkdown and UnescapeMarkdown (utils.go).  Both work byte by      *)
(* byte; the bytes they treat specially are ASCII, so the model's          *)
(* characters stand for bytes, and BT for the backtick.                    *)
(***************************************************************************)
\* the old strings of the strings.NewReplacer of EscapeMarkdown
EscapedChars == {"\\", BT, "*", "_", "{", "}", "[", "]", "(", ")", "#", "+", "-", ".", "!", "|"}

EscapeChar(c) == IF c \in EscapedChars THEN "\\" \o c ELSE c

EscapeMarkdown(text) == Concat([j \in 1..Len(text) |-> EscapeChar(Ch(text, j))])

\* the set UnescapeMarkdown tests the byte after a backslash against
UnescapedChars == {"\\", "*", "_", "{", "}", "[", "]", "(", ")", "#", "+", "-", ".", "!", "|"}

RECURSIVE UnescapeFrom(_, _)
UnescapeFrom(text, i) ==
    IF i > Len(text) THEN ""
    ELSE IF i + 1 <= Len(text) /\ Ch(text, i) = "\\" /\ Ch(text, i + 1) \in UnescapedChars
         THEN Ch(text, i + 1) \o UnescapeFrom(text, i + 2)
    ELSE Ch(text, i) \o UnescapeFrom(text, i + 1)

\* a variant that removes the backslash before a backtick as well
RECURSIVE UnescapeAllFrom(_, _)
UnescapeAllFrom(text, i) ==
    IF i > Len(text) THEN ""
    ELSE IF i + 1 <= Len(text) /\ Ch(text, i) = "\\" /\ Ch(text, i + 1) \in EscapedChars
         THEN Ch(text, i + 1) \o UnescapeAllFrom(text, i + 2)
    ELSE Ch(text, i) \o UnescapeAllFrom(text, i + 1)

UnescapeEveryEscape(text) == UnescapeAllFrom(text, 1)

UnescapeMarkdown(text) == UnescapeFrom(text, 1)

MaxEscLen == 3

EscChars == <<"a", " ", "\\", BT, "*", "_", "{", "}", "[", "]", "(", ")", "#", "+", "-", ".", "!", "|">>

EscStringOf(f, n) == Concat([j \in 1..n |-> EscChars[f[j]]])

EscStrings == UNION {{EscStringOf(f, n) : f \in [1..n -> 1..Len(EscChars)]} : n \in 0..MaxEscLen}

InitEscape ==
    /\ tz = 0
    /\ \E s \in EscStrings : kind = "esc" /\ texts = <<s>> /\ docs = <<>> /\ pc = "plain"
    /\ InlineIdle
    /\ WriteIdle
    /\ CacheIdle
    /\ ServerIdle

\* EscapeMarkdown(text) on the newest string
Escape ==
    /\ pc = "plain"
    /\ Len(texts) <= MaxSteps
    /\ texts' = Append(texts, EscapeMarkdown(texts[Len(texts)]))
    /\ pc' = "escaped"
    /\ UNCHANGED <<tz, cacheVars, serverVars, kind, docs, inlineVars, writeVars>>

\* UnescapeMarkdown(text) on the newest string
Unescape ==
    /\ pc = "escaped"
    /\ Len(texts) <= MaxSteps
    /\ texts' = Append(texts, UnescapeMarkdown(texts[Len(texts)]))
    /\ pc' = "plain"
    /\ UNCHANGED <<tz, cacheVars, serverVars, kind, docs, inlineVars, writeVars>>

NextEscape == Escape \/ Unescape

SpecEscape == InitEscape /\ [][NextEscape]_vars

\* s with a backslash written before each of its backticks
BackticksEscaped(s) == Concat([j \in 1..Len(s) |-> IF Ch(s, j) = BT THEN "\\" \o BT ELSE Ch(s, j)])

\* C20: UnescapeMarkdown(EscapeMarkdown(s)) = s for every s without a
\* backtick, backslashes and the other special characters included; for an
\* s with backticks the result is s with a backslash kept before each
\* backtick.
C20_EscapeRoundTrip ==
    kind = "esc" =>
        \A j \in 1..Len(texts) :
            j % 2 = 1 /\ j + 2 <= Len(texts) =>
                /\ texts[j + 2] = BackticksEscaped(texts[j])
                /\ ~Contains(texts[j], BT) => texts[j + 2] = texts[j]

C20_Witness ==
    /\ kind = "esc" /\ Len(texts) >= 3
    /\ texts[1] = "\\^*" /\ texts[2] = "\\\\\\^\\*" /\ texts[3] = "\\\\^*"

(***************************************************************************)
(* The display-name cache (lruCache, confluence package).  A cache state   *)
(* st holds the fields of the cache (st.c) and the lruItem objects by      *)
(* address (st.h); the address 0 is nil.                                   *)
(***************************************************************************)
\* userCacheMaxSize is 100 in the source; the model runs a smaller cache
userCacheMaxSize == 2

MaxAccesses == 5

CacheKeys == {"k1", "k2", "k3", "k4"}

CacheValues == {"Ann", "Bob"}

CacheState(c, h) == [c |-> c, h |-> h]

MapDelete(m, key) == [k \in DOMAIN m \ {key} |-> m[k]]

\* the address of a new lruItem
NewItem(h) == Min({a \in 1..(Cardinality(DOMAIN h) + 1) : a \notin DOMAIN h})

\* remove, first half: item.prev.next = item.next, or c.head = item.next
RemovePrev(st, item) ==
    IF item.prev # 0 THEN CacheState(st.c, [st.h EXCEPT ![item.prev].next = item.next])
    ELSE CacheState([st.c EXCEPT !.head = item.next], st.h)

\* remove, second half: item.next.prev = item.prev, or c.tail = item.prev
RemoveNext(st, item) ==
    IF item.next # 0 THEN CacheState(st.c, [st.h EXCEPT ![item.next].prev = item.prev])
    ELSE CacheState([st.c EXCEPT !.tail = item.prev], st.h)

remove(st, a) == RemoveNext(RemovePrev(st, st.h[a]), st.h[a])

\* addToFront after item.prev = nil and item.next = c.head
AddLinked(c, h, a) ==
    CacheState([c EXCEPT !.head = a, !.tail = IF c.tail = 0 THEN a ELSE c.tail],
               IF c.head # 0 THEN [h EXCEPT ![c.head].prev = a] ELSE h)

addToFront(st, a) == AddLinked(st.c, [st.h EXCEPT ![a].prev = 0, ![a].next = st.c.head], a)

\* a variant that leaves the item where it is
MoveToFrontNever(st, a) == st

moveToFront(st, a) == IF a = st.c.head THEN st ELSE addToFront(remove(st, a), a)

\* the lruItem the tail pointed to is referenced by nothing afterwards and is
\* dropped from the objects
Unlinked(st, a) == CacheState(st.c, MapDelete(st.h, a))

removeTail(st) ==
    IF st.c.tail = 0 THEN st
    ELSE Unlinked(remove(CacheState([st.c EXCEPT !.items = MapDelete(st.c.items, st.h[st.c.tail].key)], st.h),
                         st.c.tail),
                  st.c.tail)

\* get: [st, value, ok]
CacheGot(st, value, ok) == [st |-> st, value |-> value, ok |-> ok]

get(st, key) ==
    IF key \in DOMAIN st.c.items
    THEN CacheGot(moveToFront(st, st.c.items[key]), st.h[st.c.items[key]].value, TRUE)
    ELSE CacheGot(st, "", FALSE)

Evicting(st) == IF Cardinality(DOMAIN st.c.items) > st.c.capacity THEN removeTail(st) ELSE st

SetNew(st, key, value, a) ==
    Evicting(addToFront(CacheState([st.c EXCEPT !.items = (key :> a) @@ st.c.items],
                                   (a :> [key |-> key, value |-> value, prev |-> 0, next |-> 0]) @@ st.h),
                        a))

set(st, key, value) ==
    IF key \in DOMAIN st.c.items
    THEN moveToFront(CacheState(st.c, [st.h EXCEPT ![st.c.items[key]].value = value]), st.c.items[key])
    ELSE SetNew(st, key, value, NewItem(st.h))

InitCache ==
    /\ tz = 0
    /\ ConvIdle
    /\ InlineIdle
    /\ WriteIdle
    /\ ServerIdle
    /\ userCache = [capacity |-> userCacheMaxSize, items |-> <<>>, head |-> 0, tail |-> 0]
    /\ lruItems = <<>>
    /\ accessLog = <<>>

CacheBecomes(st) == userCache' = st.c /\ lruItems' = st.h

\* userCache.get(key)
CacheGet ==
    /\ Len(accessLog) < MaxAccesses
    /\ \E key \in CacheKeys :
           /\ CacheBecomes(get(CacheState(userCache, lruItems), key).st)
           /\ accessLog' = IF get(CacheState(userCache, lruItems), key).ok THEN Append(accessLog, key) ELSE accessLog
    /\ UNCHANGED <<tz, convVars, inlineVars, writeVars, serverVars>>

\* userCache.set(key, value)
CacheSet ==
    /\ Len(accessLog) < MaxAccesses
    /\ \E key \in CacheKeys, value \in CacheValues :
           /\ CacheBecomes(set(CacheState(userCache, lruItems), key, value))
           /\ accessLog' = Append(accessLog, key)
    /\ UNCHANGED <<tz, convVars, inlineVars, writeVars, serverVars>>

NextCache == CacheGet \/ CacheSet

SpecCache == InitCache /\ [][NextCache]_vars

\* the keys of the items from address a on, following next
RECURSIVE KeysFrom(_, _, _)
KeysFrom(h, a, fuel) ==
    IF a = 0 \/ fuel = 0 \/ a \notin DOMAIN h THEN <<>> ELSE <<h[a].key>> \o KeysFrom(h, h[a].next, fuel - 1)

\* the keys of the items from address a back, following prev
RECURSIVE KeysBack(_, _, _)
KeysBack(h, a, fuel) ==
    IF a = 0 \/ fuel = 0 \/ a \notin DOMAIN h THEN <<>> ELSE <<h[a].key>> \o KeysBack(h, h[a].prev, fuel - 1)

ListKeys == KeysFrom(lruItems, userCache.head, MaxAccesses + 1)

Reversed(s) == [j \in 1..Len(s) |-> s[Len(s) + 1 - j]]

\* the distinct keys of a log, the most recently accessed first
RECURSIVE ByRecency(_)
ByRecency(log) ==
    IF Len(log) = 0 THEN <<>>
    ELSE <<log[Len(log)]>> \o ByRecency(SelectSeq(SubSeq(log, 1, Len(log) - 1), LAMBDA k : k # log[Len(log)]))

FirstOf(s, n) == SubSeq(s, 1, IF Len(s) < n THEN Len(s) ELSE n)

\* C21: the cache holds at most capacity entries, the keys of the map are
\* exactly the keys of the items on the list from head to tail, every get
\* hit and every set moves its key to the head, and a set beyond the
\* capacity evicts exactly the least recently accessed key: the list holds
\* the capacity most recently accessed keys, the most recent first.
C21_CacheIsLRU ==
    /\ Cardinality(DOMAIN userCache.items) <= userCache.capacity
    /\ Len(ListKeys) = Cardinality(DOMAIN userCache.items)
    /\ {ListKeys[j] : j \in 1..Len(ListKeys)} = DOMAIN userCache.items
    /\ \A k \in DOMAIN userCache.items : lruItems[userCache.items[k]].key = k
    /\ KeysBack(lruItems, userCache.tail, MaxAccesses + 1) = Reversed(ListKeys)
    /\ ListKeys = FirstOf(ByRecency(accessLog), userCache.capacity)

C21_Witness ==
    /\ accessLog = <<"k1", "k2", "k1", "k3">>
    /\ ListKeys = <<"k3", "k1">>
    /\ DOMAIN userCache.items = {"k1", "k3"}

(***************************************************************************)
(* Where a paragraph ends (parseParagraph)                                 *)
(***************************************************************************)
\* the lines that follow the first line of a paragraph
AfterLines ==
    <<"more", "", "<!-- adf:paragraph textAlign=\"center\" -->", "~~~panel type=info", Fence3 \o "go", "# H", "---",
      "> q", ">", "| a |", "- [ ] t", "- b", "1. n", "![a](u)">>

ParagraphTexts ==
    {"para\n" \o AfterLines[a] : a \in 1..Len(AfterLines)}
        \cup {"para\n" \o AfterLines[a] \o "\n" \o AfterLines[b] : a, b \in 1..Len(AfterLines)}

InitParagraphs ==
    /\ tz = 0
    /\ \E t \in ParagraphTexts : kind = "md" /\ texts = <<t>> /\ docs = <<>> /\ pc = "text"
    /\ InlineIdle
    /\ WriteIdle
    /\ CacheIdle
    /\ ServerIdle

SpecParagraphs == InitParagraphs /\ [][Next]_vars

\* the line matches one of the block predicates parseBlocks tests before the
\* fallback paragraph
IsBlockStart(line) ==
    \/ MetadataMatch(line).ok
    \/ FenceMatch(line).ok
    \/ HasPrefix(line, Fence3)
    \/ HasPrefix(line, "#")
    \/ line \in {"---", "***", "___"}
    \/ HasPrefix(line, "> ") \/ line = ">"
    \/ HasPrefix(line, "|")
    \/ TaskMatch(line).ok
    \/ BulletStart(line)
    \/ OrderedStart(line)
    \/ ImageLine(TrimSpace(line)).stop # 0

\* the first line after the first that is blank or starts a block
ParagraphStop(lines) ==
    Min({j \in 2..Len(lines) : TrimSpace(lines[j]) = "" \/ IsBlockStart(lines[j])} \cup {Len(lines) + 1})

\* C22: parseParagraph stops at the first line that is blank or matches a
\* higher-priority block predicate (metadata comment, custom fence, standard
\* fence, heading, rule, blockquote including a bare ">", table, task item,
\* bullet item, ordered item, standalone image line): the paragraph's text
\* is the lines before that line and never holds that line.
C22_ParagraphStops ==
    kind = "md" /\ Len(docs) >= 1 =>
        /\ Len(docs[1].content) >= 1
        /\ docs[1].content[1] =
               Para(Join(SubSeq(Split(texts[1], "\n"), 1, ParagraphStop(Split(texts[1], "\n")) - 1), "\n"))

(***************************************************************************)
(* Metadata comments (parseBlocks: pendingMetadata)                        *)
(***************************************************************************)
MaxElems == 4

\* the elements of the input texts: two metadata comments (the second one
\* followed by a blank line), a paragraph, a heading, a rule and a table
ElemLines ==
    <<"<!-- adf:paragraph textAlign=\"center\" -->", "<!-- adf:paragraph textAlign=\"end\" -->\n", "text", "## head",
      "---", "| a |\n">>

ElemAlign == <<"center", "end", "", "", "", "">>

ElemType == <<"", "", "paragraph", "heading", "rule", "table">>

IsComment(e) == e <= 2

\* a paragraph is followed by a blank line, every other element by a newline
ElemText(e) == ElemLines[e] \o (IF e = 3 THEN "\n\n" ELSE "\n")

ElemsText(f, n) == Concat([j \in 1..n |-> ElemText(f[j])])

ElemSeqs == UNION {[1..n -> 1..Len(ElemLines)] : n \in 1..MaxElems}

InitMetadata ==
    /\ tz = 0
    /\ \E f \in ElemSeqs : kind = "md" /\ texts = <<ElemsText(f, Len(f))>> /\ docs = <<>> /\ pc = "text"
    /\ InlineIdle
    /\ WriteIdle
    /\ CacheIdle
    /\ ServerIdle

SpecMetadata == InitMetadata /\ [][Next]_vars

\* the blocks of the elements from j on, each with the textAlign of the
\* comment that governs it: the last comment since the block before it
RECURSIVE Governed(_, _, _)
Governed(f, j, align) ==
    IF j > Len(f) THEN <<>>
    ELSE IF IsComment(f[j]) THEN Governed(f, j + 1, ElemAlign[f[j]])
    ELSE <<[type |-> ElemType[f[j]], align |-> align]>> \o Governed(f, j + 1, "")

AlignOf(node) == AttrStr(node.attrs, "textAlign")

MetadataApplied(content, g) ==
    /\ Len(content) = Len(g)
    /\ \A k \in 1..Len(g) :
           /\ content[k].type = g[k].type
           /\ AlignOf(content[k]) \in {"", g[k].align}
           /\ g[k].type \in {"paragraph", "heading"} => AlignOf(content[k]) = g[k].align

\* C23: the attributes of a metadata comment reach at most one block, the
\* first block parsed after it; after a block the pending metadata is
\* empty, and a later comment replaces an earlier one that no block took.
C23_MetadataOnce ==
    kind = "md" /\ Len(docs) >= 1 =>
        \A f \in ElemSeqs : texts[1] = ElemsText(f, Len(f)) => MetadataApplied(docs[1].content, Governed(f, 1, ""))

C23_Witness ==
    /\ kind = "md" /\ Len(docs) >= 1
    /\ texts[1] = ElemsText(<<1, 2, 3, 3>>, 4)
    /\ Len(docs[1].content) = 2
    /\ AlignOf(docs[1].content[1]) = "end"
    /\ AlignOf(docs[1].content[2]) = ""

(***************************************************************************)
(* Sibling blocks inside a blockquote, a panel or an expand                *)
(***************************************************************************)
MaxChildren == 3

ChildKinds ==
    <<Para("one"), Para("two"), Mk("paragraph", EmptyMap, <<>>),
      Mk("heading", "level" :> VFloat(2), <<TextNode("head", <<>>)>>)>>

Containers ==
    <<[type |-> "blockquote", attrs |-> EmptyMap], [type |-> "panel", attrs |-> "panelType" :> VStr("note")],
      [type |-> "expand", attrs |-> "title" :> VStr("More")]>>

ChildSeqs == UNION {[1..n -> 1..Len(ChildKinds)] : n \in 1..MaxChildren}

ContainerOf(c, f) == Mk(Containers[c].type, Containers[c].attrs, [j \in 1..Len(f) |-> ChildKinds[f[j]]])

InitSiblings ==
    /\ tz = 0
    /\ \E c \in 1..Len(Containers), f \in ChildSeqs :
           kind = "doc" /\ texts = <<>> /\ pc = "doc"
               /\ docs = <<Mk("doc", "version" :> VFloat(1), <<ContainerOf(c, f)>>)>>
    /\ InlineIdle
    /\ WriteIdle
    /\ CacheIdle
    /\ ServerIdle

SpecSiblings == InitSiblings /\ [][Next]_vars

\* the non-empty renderings of the children, joined by a blank line
SiblingsJoined(node) == Join(NonEmpty(RenderEach(node.content, 0)), "\n\n")

QuotedLines(text) == Join([j \in 1..Len(Split(text, "\n")) |-> "> " \o Split(text, "\n")[j]], "\n")

Wrapped(node, inner) ==
    IF node.type = "blockquote" THEN QuotedLines(inner)
    ELSE IF node.type = "panel" THEN "~~~panel type=" \o AttrStr(node.attrs, "panelType") \o "\n" \o inner \o "\n~~~"
    ELSE "~~~expand title=\"" \o AttrStr(node.attrs, "title") \o "\"\n" \o inner \o "\n~~~"

\* C24: the children of a blockquote, panel or expand are rendered joined
\* by a blank line between the non-empty renderings, as at the document
\* root; two paragraphs in a blockquote are two quoted paragraphs with a
\* quoted blank line between them.
C24_SiblingsSeparated ==
    kind = "doc" /\ Len(texts) >= 1 /\ SiblingsJoined(docs[1].content[1]) # "" =>
        texts[1] = NormalizeWhitespace(Wrapped(docs[1].content[1], SiblingsJoined(docs[1].content[1])))

\* the same for panels and expands only
PanelSiblingsSeparated == docs # <<>> /\ docs[1].content[1].type # "blockquote" => C24_SiblingsSeparated

(***************************************************************************)
(* Task items under a list item (parseListItem)                            *)
(***************************************************************************)
MaxNested == 3

ParentLines == <<"- parent", "* parent", "1. parent">>

NestedLines == <<"  - [ ] todo", "  - [x] done", "  - [X] also", "    - [ ] deep", "  - plain">>

NestedText(p, f) == ParentLines[p] \o "\n" \o Join([j \in 1..Len(f) |-> NestedLines[f[j]]], "\n")

NestedSeqs == UNION {[1..n -> 1..Len(NestedLines)] : n \in 1..MaxNested}

InitNestedTasks ==
    /\ tz = 0
    /\ \E p \in 1..Len(ParentLines), f \in NestedSeqs :
           kind = "md" /\ texts = <<NestedText(p, f)>> /\ docs = <<>> /\ pc = "text"
    /\ InlineIdle
    /\ WriteIdle
    /\ CacheIdle
    /\ ServerIdle

SpecNestedTasks == InitNestedTasks /\ [][Next]_vars

\* the content of the first item of the first list of a document
FirstItem(doc) == doc.content[1].content[1].content

HasFirstItem(doc) ==
    /\ Len(doc.content) >= 1
    /\ doc.content[1].type \in {"bulletList", "orderedList"}
    /\ Len(doc.content[1].content) >= 1

StateOf(line) == IF TaskMatch(line).mark = " " THEN "TODO" ELSE "DONE"

\* C25: a deeper-indented task-item line after a list item attaches a
\* nested taskList, whose items carry the state TODO or DONE, to that item,
\* and not a bulletList whose item text begins with "[ ]".
C25_NestedTaskList ==
    kind = "md" /\ Len(docs) >= 1 /\ TaskMatch(Split(texts[1], "\n")[2]).ok =>
        /\ HasFirstItem(docs[1])
        /\ Len(FirstItem(docs[1])) >= 2
        /\ FirstItem(docs[1])[2].type = "taskList"
        /\ Len(FirstItem(docs[1])[2].content) >= 1
        /\ FirstItem(docs[1])[2].content[1].type = "taskItem"
        /\ AttrStr(FirstItem(docs[1])[2].content[1].attrs, "state") = StateOf(Split(texts[1], "\n")[2])

(***************************************************************************)
(* A custom fence inside a panel or an expand (parseFenceBlock)            *)
(***************************************************************************)
MaxBodyLines == 2

OuterFences == <<"~~~panel type=info", "~~~expand title=\"Outer\"">>

OuterTypes == <<"panel", "expand">>

InnerFences == <<"~~~expand title=\"Inner\"", "~~~panel type=note">>

InnerTypes == <<"expand", "panel">>

LeadLines == <<"", "lead\n">>

BodyLines == <<"inner", "# head", "- item", "more text">>

BodySeqs == UNION {[1..n -> 1..Len(BodyLines)] : n \in 1..MaxBodyLines}

BodyText(f) == Join([j \in 1..Len(f) |-> BodyLines[f[j]]], "\n")

NestedFenceText(o, l, n, f) ==
    OuterFences[o] \o "\n" \o LeadLines[l] \o InnerFences[n] \o "\n" \o BodyText(f) \o "\n~~~\n~~~"

InitNestedFences ==
    /\ tz = 0
    /\ \E o \in 1..2, l \in 1..2, n \in 1..2, f \in BodySeqs :
           kind = "md" /\ texts = <<NestedFenceText(o, l, n, f)>> /\ docs = <<>> /\ pc = "text"
    /\ InlineIdle
    /\ WriteIdle
    /\ CacheIdle
    /\ ServerIdle

SpecNestedFences == InitNestedFences /\ [][Next]_vars

\* the document is one outer block whose last child is the inner block with
\* the given body
NestedAs(doc, o, l, n, f) ==
    /\ Len(doc.content) = 1
    /\ doc.content[1].type = OuterTypes[o]
    /\ Len(doc.content[1].content) = l
    /\ doc.content[1].content[l].type = InnerTypes[n]
    /\ doc.content[1].content[l].content = parseBlocks(Split(BodyText(f), "\n")).content

\* C26: a panel or expand whose body holds a complete inner custom fence
\* parses to exactly the outer block with the inner block inside; each
\* closing "~~~" closes the innermost open fence and no closing line is
\* left over as a paragraph.
C26_FencesNest ==
    kind = "md" /\ Len(docs) >= 1 =>
        \A o \in 1..2, l \in 1..2, n \in 1..2, f \in BodySeqs :
            texts[1] = NestedFenceText(o, l, n, f) => NestedAs(docs[1], o, l, n, f)

(***************************************************************************)
(* Date values that are not timestamps (FormatTimestamp)                   *)
(***************************************************************************)
\* date values: not parseable, integers, and an ISO date
RawDates ==
    {"2024/01/01", "tomorrow", "01-02-2024", "2024-13-01", "12abc", "Jan 5", "-", "+5 days", "x1", "1e3",
     "1704067200000", "20240101", "-86400000", "2024-01-01"}

InitRawDates ==
    /\ tz \in TimeZones
    /\ \E d \in RawDates : kind = "md" /\ texts = <<"{date:" \o d \o "}">> /\ docs = <<>> /\ pc = "text"
    /\ InlineIdle
    /\ WriteIdle
    /\ CacheIdle
    /\ ServerIdle

SpecRawDates == InitRawDates /\ [][Next]_vars

\* s is a decimal integer: an optional sign and one or more digits
IsInteger(s) == DigitsStart(s) <= Len(s) /\ \A j \in DigitsStart(s)..Len(s) : Ch(s, j) \in Digits

\* C27: FormatTimestamp returns its trimmed input unchanged whenever the
\* input is not a decimal integer; a date value that ParseTimestamp passed
\* through as unparseable renders back as the same text.
C27_NonIntegerUnchanged ==
    kind = "md" /\ Len(docs) >= 1 /\ HasDate(docs[1]) /\ ~IsInteger(TrimSpace(TimestampIn(docs[1]))) =>
        /\ FormatTimestamp(TimestampIn(docs[1])) = TrimSpace(TimestampIn(docs[1]))
        /\ Len(texts) >= 2 /\ "{date:" \o TimestampIn(docs[1]) \o "}" = texts[1] => texts[2] = texts[1]

(***************************************************************************)
(* The document after UploadPendingMedia                                   *)
(***************************************************************************)
\* the media nodes of a document at any depth, in document order
RECURSIVE MediaNodes(_)
RECURSIVE MediaUnder(_)
MediaUnder(content) ==
    IF Len(content) = 0 THEN <<>> ELSE MediaNodes(content[1]) \o MediaUnder(Tail(content))

MediaNodes(node) == IF node.type = "media" THEN <<node>> ELSE MediaUnder(node.content)

\* the Markdown text whose document UploadPendingMedia is given
UploadBody == IF call.op = "UpdateIssue" THEN call.fields["description"] ELSE call.body

\* the step in which UploadPendingMedia returns nil
UploadReturnsNil == wpc \in {"collect", "upload"} /\ wpc' = AfterUpload

\* the step in which UploadPendingMedia returns an error
UploadReturnsError == wpc \in {"collect", "validate", "upload"} /\ wpc' = "done"

HasPlaceholder(m) == HasPrefix(AttrStr(m.attrs, "id"), PendingPrefix)

StillPending(m) == HasPlaceholder(m) \/ "_source" \in DOMAIN m.attrs

UploadedIds(n) == {AttrStr(NewAttrs(j), "id") : j \in 1..n}

MediaResolved(before, after, n) ==
    /\ Len(after) = Len(before)
    /\ \A j \in 1..Len(after) :
           /\ ~StillPending(after[j])
           /\ HasPlaceholder(before[j]) =>
                  /\ AttrStr(after[j].attrs, "id") \in UploadedIds(n)
                  /\ AttrStr(after[j].attrs, "collection") # ""

\* C28: when UploadPendingMedia returns success, no media node of the
\* document, at any depth and under a mediaSingle or a mediaGroup alike,
\* still has a __PENDING_UPLOAD_ placeholder id or a _source attribute, and
\* every node that was pending has an uploaded id and a collection.
C28_NoPendingAfterUpload ==
    [][UploadReturnsNil =>
           MediaResolved(MediaNodes(FromMarkdown(UploadBody)), MediaNodes(adfDoc'), Attached')]_vars

\* the same for the media nodes that are the child of a mediaSingle
RECURSIVE SingleMedia(_)
RECURSIVE SingleMediaUnder(_)
SingleMediaUnder(content) ==
    IF Len(content) = 0 THEN <<>> ELSE SingleMedia(content[1]) \o SingleMediaUnder(Tail(content))

SingleMedia(node) ==
    IF node.type = "mediaSingle" THEN MediaUnder(node.content) ELSE SingleMediaUnder(node.content)

SingleMediaResolved ==
    [][UploadReturnsNil =>
           MediaResolved(SingleMedia(FromMarkdown(UploadBody)), SingleMedia(adfDoc'), Attached')]_vars

\* a successful return after two uploads
TwoUploaded == wpc = AfterUpload /\ Len(pending) = 2 /\ Attached = 2

\* C29: when UploadPendingMedia returns an error, from the collection, the
\* validation or any single upload, the document is as it was given: no
\* media node's id, collection, type or _source has been modified.
C29_ErrorLeavesDocument ==
    [][UploadReturnsError => MediaNodes(adfDoc') = MediaNodes(FromMarkdown(UploadBody))]_vars

\* the same for the errors of the collection and of the validation
EarlyErrorLeavesDocument ==
    [][UploadReturnsError /\ wpc \in {"collect", "validate"} =>
           adfDoc' = FromMarkdown(UploadBody)]_vars

\* the same for a failure of the first upload
FirstUploadErrorLeavesDocument ==
    [][UploadReturnsError /\ wpc = "upload" /\ Attached = 0 => adfDoc' = FromMarkdown(UploadBody)]_vars

(***************************************************************************)
(* The request loop of main and HandleRequest                              *)
(***************************************************************************)
MaxRequests == 3

\* a value of type any that holds a JSON id, or nil
NilId == [nil |-> TRUE, v |-> 0]

IdOf(n) == [nil |-> FALSE, v |-> n]

RequestIds == {NilId, IdOf(0), IdOf(1)}

Methods == {"initialize", "notifications/initialized", "tools/list", "tools/call", "ping"}

\* the params of a message: absent, an object that names a tool, an array
ParamTexts == {"", "{\"name\":\"atlassian_read\"}", "[]"}

ParamsOf(method) == IF method = "tools/call" THEN ParamTexts ELSE {""}

\* a line of standard input: the empty line, a text that is not a JSON
\* object, or a JSON-RPC message with its id (nil when it has none or null)
Line(json, id, method, params) == [json |-> json, id |-> id, method |-> method, params |-> params]

InputLines ==
    {Line("", NilId, "", ""), Line("garbage", NilId, "", "")}
        \cup UNION {{Line("object", id, method, params) : params \in ParamsOf(method)} :
                        id \in RequestIds, method \in Methods}

\* json.Unmarshal of a line into a types.Request
UnmarshalOk(line) == line.json = "object"

Request(line) == [ID |-> line.id, Method |-> line.method, Params |-> line.params]

NoError == [Code |-> 0, Message |-> ""]

Response(jsonrpc, id, res, err) == [JSONRPC |-> jsonrpc, ID |-> id, Result |-> res, Error |-> err]

\* json.Unmarshal(req.Params, &params) succeeds on an object only
ParamsOk(params) == params = "{\"name\":\"atlassian_read\"}"

\* HandleRequest(req); the result of a handler is kept as its name
HandleRequest(req) ==
    CASE req.Method = "initialize" -> Response("2.0", req.ID, "initialize", NoError)
      [] req.Method = "notifications/initialized" -> Response("", NilId, "", NoError)
      [] req.Method = "tools/list" -> Response("2.0", req.ID, "handleToolsList", NoError)
      [] req.Method = "tools/call" ->
             IF ~ParamsOk(req.Params)
             THEN Response("2.0", req.ID, "", [Code |-> -32602, Message |-> "Invalid params"])
             ELSE Response("2.0", req.ID, "handleToolCall", NoError)
      [] OTHER -> Response("2.0", req.ID, "", [Code |-> -32601, Message |-> "Method not found"])

IsEmptyResponse(resp) == resp.ID = NilId /\ resp.Result = "" /\ resp.Error = NoError

Written(resp) == IF IsEmptyResponse(resp) THEN stdout' = stdout ELSE stdout' = Append(stdout, resp)

\* one iteration of the loop of main: the line is read, and answered unless
\* it is empty, does not parse, or has an empty response
ReadLine ==
    /\ Len(stdin) > 0
    /\ stdin' = Tail(stdin)
    /\ IF stdin[1].json = "" \/ ~UnmarshalOk(stdin[1]) THEN stdout' = stdout
       ELSE Written(HandleRequest(Request(stdin[1])))
    /\ UNCHANGED <<tz, cacheVars, convVars, inlineVars, writeVars>>

InitServer ==
    /\ tz = 0
    /\ ConvIdle
    /\ InlineIdle
    /\ WriteIdle
    /\ CacheIdle
    /\ stdin \in UNION {[1..n -> InputLines] : n \in 0..MaxRequests}
    /\ stdout = <<>>

NextServer == ReadLine

SpecServer == InitServer /\ [][NextServer]_vars

IsMessage(line) == line.json = "object"

IsNotificationLine(line) == IsMessage(line) /\ line.id = NilId

\* the lines written by the step
NewOutput == SubSeq(stdout', Len(stdout) + 1, Len(stdout'))

Answered(line) ==
    IF IsNotificationLine(line) THEN stdout' = stdout
    ELSE IsMessage(line) =>
             /\ Len(stdout') = Len(stdout) + 1
             /\ SubSeq(stdout', 1, Len(stdout)) = stdout
             /\ stdout'[Len(stdout')].ID = line.id

\* C30: in the request loop a message without an id never causes a response
\* line to be written, whatever its method; every message with an id gets
\* exactly one response with the same id, written before the next line is
\* read, so that the responses are in the order of the requests.
C30_ResponsesMatchRequests == [][stdin' # stdin => Answered(stdin[1])]_vars

\* the same for the messages whose method is not notifications/initialized
\* when they have an id, and is notifications/initialized when they have none
AnsweredByMethod ==
    [][stdin' # stdin /\ ((stdin[1].method = "notifications/initialized") <=> (stdin[1].id = NilId))
           => Answered(stdin[1])]_vars

\* the output only grows, by at most one line for each line read
OutputInOrder ==
    [][/\ Len(stdout') <= Len(stdout) + 1
       /\ SubSeq(stdout', 1, Len(stdout)) = stdout]_vars

====
